---------------------------- MODULE Spec2Model ----------------------------
(***************************************************************************)
(* A model of the pur package manager: the installation file structure     *)
(* (api/src/structure.rs), the package entity (api/src/package.rs), the    *)
(* lifecycle coordinator (front/src/handle.rs) and the repository update   *)
(* loop with its version predicate (src/repo.rs).                          *)
(*                                                                         *)
(* One command (install, build, remove, update) runs at a time as one      *)
(* process; its call stack is the variable stack, one frame per function   *)
(* that is executing, and every action is one step of the frame on top.    *)
(***************************************************************************)
EXTENDS Integers, Sequences, FiniteSets, TLC

VARIABLES
    repo,            \* the repository directory: per package its version file and depends
    db,              \* /var/db/installed/<p>/ for every package p
    sys,             \* the projection paths that exist in the system directories
    cwd,             \* the working directory of the running process
    stack,           \* the call stack of the running command (last element = top)
    ret,             \* the value returned by the frame popped last
    trace,           \* the operations performed by the running command, in order
    overflowChecks,  \* TRUE: the binary was built with overflow checks (debug profile)
    rlimit           \* which resource a runaway recursion of this process exhausts first

vars == <<repo, db, sys, cwd, stack, ret, trace, overflowChecks, rlimit>>

---------------------------------------------------------------------------
(* Bounds of the model.                                                    *)

\* read_dir calls that succeed on one recursion path before the process runs
\* out of file descriptors (RLIMIT_NOFILE in the real process).
FdLimit == 2

\* do_recursive frames that fit on the stack before the process overflows it.
StackLimit == 2

\* Most entries the install script leaves in one projection subtree.
MaxEntries == 2

---------------------------------------------------------------------------
(* Names.                                                                  *)

Names == {"a", "b", "c"}

\* The order in which read_dir lists the repository's package directories.
PkgOrder == <<"a", "b", "c">>

\* A dependency name that no repository provides.
Missing == "zzz"

\* structure.rs:50, the five projection subtrees, in get_children order.
Children == <<"usr/bin", "usr/lib", "usr/lib64", "usr/sbin", "usr/linuxrc">>

ChildIdx == 1..Len(Children)

\* What an install script can leave in a projection subtree: regular files
\* and subdirectories.
FileNames == {"f1", "f2"}
DirNames == {"d1"}

\* A symbolic link, in a projection subtree, to a directory.
DirLinkNames == {"ld"}

---------------------------------------------------------------------------
(* Version strings: sequences of characters.                               *)

DigitChars == {"0", "1", "2", "3", "4", "5", "6", "7", "8", "9"}

\* char::is_whitespace; "LF" and "TAB" stand for the line feed and the tab.
WhitespaceChars == {" ", "LF", "TAB"}

I32Max == 2147483647

RECURSIVE FilterSeq(_, _)
FilterSeq(s, keep) ==
    IF s = <<>> THEN <<>>
    ELSE IF Head(s) \in keep THEN <<Head(s)>> \o FilterSeq(Tail(s), keep)
    ELSE FilterSeq(Tail(s), keep)

RECURSIVE DropSeq(_, _)
DropSeq(s, drop) ==
    IF s = <<>> THEN <<>>
    ELSE IF Head(s) \in drop THEN DropSeq(Tail(s), drop)
    ELSE <<Head(s)>> \o DropSeq(Tail(s), drop)

\* .chars().filter(|x| !x.is_whitespace()).collect::<String>()
StripWhitespace(s) == DropSeq(s, WhitespaceChars)

\* The digits of a string up to its first character that is not a digit.
RECURSIVE DigitsUntilNonDigit(_)
DigitsUntilNonDigit(s) ==
    IF s = <<>> \/ Head(s) \notin DigitChars THEN <<>>
    ELSE <<Head(s)>> \o DigitsUntilNonDigit(Tail(s))

\* .chars().filter(|c| c.is_digit(10)).collect::<String>()
DigitsOf(s) == FilterSeq(s, DigitChars)

DigitVal(c) ==
    CASE c = "0" -> 0 [] c = "1" -> 1 [] c = "2" -> 2 [] c = "3" -> 3
      [] c = "4" -> 4 [] c = "5" -> 5 [] c = "6" -> 6 [] c = "7" -> 7
      [] c = "8" -> 8 [] c = "9" -> 9

\* str::parse::<i32>() of a string of decimal digits: Err on the empty string
\* and on a value above i32::MAX.
RECURSIVE ParseDigits(_, _)
ParseDigits(s, acc) ==
    IF s = <<>> THEN [ok |-> TRUE, val |-> acc]
    ELSE LET d == DigitVal(Head(s)) IN
         IF acc > (I32Max - d) \div 10
         THEN [ok |-> FALSE, val |-> 0]
         ELSE ParseDigits(Tail(s), acc * 10 + d)

ParseI32(s) ==
    IF s = <<>> THEN [ok |-> FALSE, val |-> 0] ELSE ParseDigits(s, 0)

\* The i32 subtraction a - b of repo.rs:369, as the build without overflow
\* checks computes it: a difference outside i32 wraps around.
SubI32(a, b) ==
    IF b < 0 /\ a > I32Max + b THEN (((a - I32Max) - 1) - b) + (-I32Max - 1)
    ELSE IF b > 0 /\ a < (-I32Max - 1) + b THEN ((((a + I32Max) + 1) - b) + I32Max) + 1
    ELSE a - b

\* repo.rs:356 comparse_version(x, y): Ok(x - y) over the parsed digits, Err
\* when either side does not parse.
comparse_version(x, y) ==
    LET px == ParseI32(DigitsOf(x))
        py == ParseI32(DigitsOf(y))
    IN  IF px.ok /\ py.ok
        THEN [ok |-> TRUE, val |-> SubI32(px.val, py.val)]
        ELSE [ok |-> FALSE, val |-> 0]

---------------------------------------------------------------------------
(* The on-disk state of one package, /var/db/installed/<p>/ :              *)
(*   dir      the directory itself exists                                  *)
(*   version  the file version: whether it exists, and its content         *)
(*   marker   the zero-byte file installed exists                          *)
(*   files    the sandbox directory files/ exists                          *)
(*   child    per projection subtree files/<child>: whether it exists and  *)
(*            its entries in read_dir order                                *)

NoFile == [exists |-> FALSE, content |-> <<>>]

NoChild == [exists |-> FALSE, entries |-> <<>>]

EmptyChild == [exists |-> TRUE, entries |-> <<>>]

NoPackageDir ==
    [dir |-> FALSE, version |-> NoFile, marker |-> FALSE, files |-> FALSE,
     child |-> [i \in ChildIdx |-> NoChild]]

\* Path::is_file
IsFile(e) == e \in FileNames

\* Path::is_dir: the metadata is read through symbolic links, so a link to a
\* directory is a directory.
IsDir(e) == e \in DirNames \cup DirLinkNames

\* get_path_bufs without line 68: the package directory itself is not listed.
get_path_bufs_without_dir ==
    [i \in 1..(Len(Children) + 1) |->
        IF i <= Len(Children) THEN [kind |-> "child", i |-> i]
        ELSE [kind |-> "files", i |-> 0]]

\* structure.rs:57 get_path_bufs: parent/<child> for the five children, then
\* parent, then parent's parent (/var/db/installed/<id>).
get_path_bufs ==
    [i \in 1..(Len(Children) + 2) |->
        IF i <= Len(Children) THEN [kind |-> "child", i |-> i]
        ELSE IF i = Len(Children) + 1 THEN [kind |-> "files", i |-> 0]
        ELSE [kind |-> "dir", i |-> 0]]

\* Path::exists
PathExists(d, path) ==
    CASE path.kind = "child" -> d.child[path.i].exists
      [] path.kind = "files" -> d.files
      [] path.kind = "dir"   -> d.dir

\* fs::create_dir_all: the directory and every missing ancestor.
CreateDirAll(d, path) ==
    CASE path.kind = "child" ->
            [d EXCEPT !.dir = TRUE, !.files = TRUE,
                      !.child[path.i] =
                          IF d.child[path.i].exists THEN d.child[path.i] ELSE EmptyChild]
      [] path.kind = "files" -> [d EXCEPT !.dir = TRUE, !.files = TRUE]
      [] path.kind = "dir"   -> [d EXCEPT !.dir = TRUE]

\* fs::remove_dir_all: the directory with everything beneath it.
RemoveDirAll(d, path) ==
    CASE path.kind = "child" -> [d EXCEPT !.child[path.i] = NoChild]
      [] path.kind = "files" ->
            [d EXCEPT !.files = FALSE, !.child = [i \in ChildIdx |-> NoChild]]
      [] path.kind = "dir"   -> NoPackageDir

\* create_all returning after the first path it creates.
RECURSIVE CreateFromFirstOnly(_, _)
CreateFromFirstOnly(d, k) ==
    IF k > Len(get_path_bufs) THEN d
    ELSE IF PathExists(d, get_path_bufs[k]) THEN CreateFromFirstOnly(d, k + 1)
    ELSE CreateDirAll(d, get_path_bufs[k])

\* structure.rs:87 create_all: every path of get_path_bufs that does not exist
\* is created with create_dir_all.
RECURSIVE CreateFrom(_, _)
CreateFrom(d, k) ==
    IF k > Len(get_path_bufs) THEN d
    ELSE IF PathExists(d, get_path_bufs[k]) THEN CreateFrom(d, k + 1)
    ELSE CreateFrom(CreateDirAll(d, get_path_bufs[k]), k + 1)

create_all(d) == CreateFrom(d, 1)

\* One iteration of delete_all with the test of line 101 as `path.exists()`:
\* an existing path is skipped.
DeletePathInverted(d, k) == d

\* structure.rs:100-105, one iteration of delete_all's loop: a path that does
\* not exist is skipped, an existing one is removed recursively.
DeletePath(d, k) ==
    IF PathExists(d, get_path_bufs[k]) THEN RemoveDirAll(d, get_path_bufs[k]) ELSE d

\* structure.rs:99 delete_all: the loop over every path of get_path_bufs.
RECURSIVE DeleteFrom(_, _)
DeleteFrom(d, k) ==
    IF k > Len(get_path_bufs) THEN d ELSE DeleteFrom(DeletePath(d, k), k + 1)

delete_all(d) == DeleteFrom(d, 1)

---------------------------------------------------------------------------
(* The path walker.                                                        *)

\* The event that ends a walk when the recursion overflows the stack.
StackOverflow == "STACK_OVERFLOW"

\* structure.rs:203 do_recursive(dir, callback), as the sequence of callback
\* invocations it makes while every callback succeeds.  At a directory entry
\* it calls itself on dir again (line 214), so every level reads the same
\* entries; the recursion ends when read_dir fails for want of a file
\* descriptor (the for loop over the Err value has no iteration) or when the
\* stack overflows, whichever the process reaches first.
RECURSIVE do_recursive(_, _, _)
RECURSIVE WalkEntries(_, _, _, _)
do_recursive(entries, depth, limit) ==
    IF limit = "fd" /\ depth > FdLimit THEN <<>>
    ELSE IF limit = "stack" /\ depth > StackLimit THEN <<StackOverflow>>
    ELSE WalkEntries(entries, 1, depth, limit)

WalkEntries(entries, k, depth, limit) ==
    IF k > Len(entries) THEN <<>>
    ELSE LET e == entries[k]
             here == IF IsFile(e) THEN <<e>>
                     ELSE IF IsDir(e) THEN do_recursive(entries, depth + 1, limit)
                     ELSE <<>>
         IN  IF here # <<>> /\ here[Len(here)] = StackOverflow THEN here
             ELSE here \o WalkEntries(entries, k + 1, depth, limit)

---------------------------------------------------------------------------
(* Projection and withdrawal.                                              *)

\* path.file_name().to_string_lossy().split("/"): a file name is one path
\* component and holds no '/', so the split has one element.
SplitSlash(name) == <<name>>

\* usize subtraction n - 2 (structure.rs:148 and :184).  Below 2 the
\* subtraction overflows: a panic when overflow checks are compiled in, and
\* otherwise the wrapped value 2^64 + n - 2, which is past the end of every Vec.
IndexMinusTwo(n) ==
    IF n >= 2 THEN [overflow |-> FALSE, idx |-> n - 2]
    ELSE [overflow |-> TRUE, idx |-> 0]

\* Vec::get(index)
VecGet(v, ix) ==
    IF ~ix.overflow /\ ix.idx < Len(v)
    THEN [some |-> TRUE, val |-> v[ix.idx + 1]]
    ELSE [some |-> FALSE, val |-> ""]

\* structure.rs:149-153: "/" joined with <child>/<id>, and with last when there
\* is one.
TargetPath(c, p, name) ==
    LET comps == SplitSlash(name)
        last == VecGet(comps, IndexMinusTwo(Len(comps)))
    IN  [c |-> c, p |-> p, leaf |-> IF last.some THEN last.val ELSE ""]

TargetPanics(name) ==
    overflowChecks /\ IndexMinusTwo(Len(SplitSlash(name))).overflow

\* Something exists at the target path.
Occupied(s, t) == \E l \in s : l.c = t.c /\ l.p = t.p /\ l.leaf = t.leaf

\* structure.rs:226 symlink(path, target): fails when the target exists, and
\* when its parent directory does not (nothing creates /<child>/<id>/, so only
\* a target directly in the system directory can be created).
symlink(s, t, name) ==
    IF Occupied(s, t) \/ t.leaf # ""
    THEN [sys |-> s, res |-> "Err"]
    ELSE [sys |-> s \cup {[c |-> t.c, p |-> t.p, leaf |-> t.leaf, to |-> name]},
          res |-> "Ok"]

\* remove_file leaving the target where it is.
remove_file_kept(s, t) == s

\* fs::remove_file(target), its error dropped (structure.rs:192).
remove_file(s, t) ==
    {l \in s : ~(l.c = t.c /\ l.p = t.p /\ l.leaf = t.leaf)}

\* The callback of symlink_out_scope (structure.rs:138-160) on the walk's
\* events, one after the other, until one fails.
RECURSIVE LinkVisits(_, _, _, _)
LinkVisits(evs, c, p, s) ==
    IF evs = <<>> THEN [sys |-> s, res |-> "Ok"]
    ELSE IF Head(evs) = StackOverflow THEN [sys |-> s, res |-> "abort"]
    ELSE IF TargetPanics(Head(evs)) THEN [sys |-> s, res |-> "panic"]
    ELSE LET r == symlink(s, TargetPath(c, p, Head(evs)), Head(evs))
         IN  IF r.res # "Ok" THEN r ELSE LinkVisits(Tail(evs), c, p, r.sys)

\* The withdrawal callback with the target built from the name of the file it
\* visits in place of the component before it.
RECURSIVE UnlinkVisitsByName(_, _, _, _)
UnlinkVisitsByName(evs, c, p, s) ==
    IF evs = <<>> THEN [sys |-> s, res |-> "Ok"]
    ELSE IF Head(evs) = StackOverflow THEN [sys |-> s, res |-> "abort"]
    ELSE UnlinkVisitsByName(Tail(evs), c, p,
                            remove_file(s, [c |-> c, p |-> p, leaf |-> Head(evs)]))

\* The callback of remove_symlinks (structure.rs:174-196); it never fails.
RECURSIVE UnlinkVisits(_, _, _, _)
UnlinkVisits(evs, c, p, s) ==
    IF evs = <<>> THEN [sys |-> s, res |-> "Ok"]
    ELSE IF Head(evs) = StackOverflow THEN [sys |-> s, res |-> "abort"]
    ELSE IF TargetPanics(Head(evs)) THEN [sys |-> s, res |-> "panic"]
    ELSE UnlinkVisits(Tail(evs), c, p, remove_file(s, TargetPath(c, p, Head(evs))))

\* structure.rs:127 symlink_out_scope over the children from index k on.
RECURSIVE LinkChildren(_, _, _, _, _)
LinkChildren(p, d, s, k, limit) ==
    IF k > Len(Children) THEN [sys |-> s, res |-> "Ok"]
    ELSE IF ~d.child[k].exists THEN LinkChildren(p, d, s, k + 1, limit)
    ELSE LET r == LinkVisits(do_recursive(d.child[k].entries, 1, limit), k, p, s)
         IN  IF r.res # "Ok" THEN r ELSE LinkChildren(p, d, r.sys, k + 1, limit)

\* symlink_out_scope undoing, when a symlink fails, the symlinks it created.
symlink_out_scope_undoing(p, d, s, limit) ==
    LET r == LinkChildren(p, d, s, 1, limit)
    IN  IF r.res = "Err" THEN [sys |-> s, res |-> "Err"] ELSE r

symlink_out_scope(p, d, s, limit) == LinkChildren(p, d, s, 1, limit)

\* structure.rs:166 remove_symlinks over the children from index k on.
RECURSIVE UnlinkChildren(_, _, _, _, _)
UnlinkChildren(p, d, s, k, limit) ==
    IF k > Len(Children) THEN [sys |-> s, res |-> "Ok"]
    ELSE IF ~d.child[k].exists THEN UnlinkChildren(p, d, s, k + 1, limit)
    ELSE LET r == UnlinkVisits(do_recursive(d.child[k].entries, 1, limit), k, p, s)
         IN  IF r.res # "Ok" THEN r ELSE UnlinkChildren(p, d, r.sys, k + 1, limit)

\* remove_symlinks with the test of line 168 inverted: the children that
\* exist are the ones passed over.
remove_symlinks_inverted(p, d, s, limit) == [sys |-> s, res |-> "Ok"]

remove_symlinks(p, d, s, limit) == UnlinkChildren(p, d, s, 1, limit)

---------------------------------------------------------------------------
(* The package entity's queries.                                           *)

\* The names read_dir lists in /var/db/installed/<p>/.
DirEntries(d) ==
    (IF d.version.exists THEN {"version"} ELSE {})
        \cup (IF d.marker THEN {"installed"} ELSE {})
        \cup (IF d.files THEN {"files"} ELSE {})

\* str::ends_with("installed") over the names a package directory can hold.
EndsWithInstalled(n) == n = "installed"

NoData == [some |-> FALSE, version |-> <<>>]

\* repo.rs:62 InstallData::try_from(path): the version file, whitespace
\* stripped; an error when it cannot be read.
InstallDataTryFrom(d) ==
    IF d.dir /\ d.version.exists
    THEN [some |-> TRUE, version |-> StripWhitespace(d.version.content)]
    ELSE NoData

\* package.rs:81 is_built: the entry of /var/db/installed/ named like the
\* package, read as install data.
is_built(p, dbs) ==
    LET found == {r \in Names : dbs[r].dir /\ r = p}
    IN  IF found = {} THEN NoData
        ELSE InstallDataTryFrom(dbs[CHOOSE r \in found : TRUE])

\* is_installed without reading the install data: the marker alone decides.
is_installed_marker_only(p, dbs) ==
    IF \E r \in Names : dbs[r].dir /\ dbs[r].marker /\ r = p
    THEN [some |-> TRUE, version |-> StripWhitespace(dbs[p].version.content)]
    ELSE NoData

\* package.rs:25 is_installed: the same, over the entries that hold a file
\* whose name ends in "installed".
is_installed(p, dbs) ==
    LET found == {r \in Names :
                     /\ dbs[r].dir
                     /\ \E f \in DirEntries(dbs[r]) : EndsWithInstalled(f)
                     /\ r = p}
    IN  IF found = {} THEN NoData
        ELSE InstallDataTryFrom(dbs[CHOOSE r \in found : TRUE])

---------------------------------------------------------------------------
(* Packages as parsed from the repository, and the call stack.             *)

\* package.rs:192 Package::try_from: the version file with whitespace
\* stripped, and the lines of depends.
PackageVersion(p) == StripWhitespace(repo.pkg[p].version)

PackageDepends(p) == repo.pkg[p].depends

\* The files directory of a package, as a working directory.
FilesDir(p) == <<"files", p>>

Frame(fn, pkg, pc) == [fn |-> fn, pkg |-> pkg, pc |-> pc, i |-> 1, saved |-> <<>>]

\* No process is running.
Idle == stack = <<>> /\ ret = "idle"

\* The running command has ended; ret is what it ended with.
Finished == stack = <<>> /\ ret # "idle"

Top == stack[Len(stack)]

At(fn, pc) == stack # <<>> /\ Top.fn = fn /\ Top.pc = pc

Goto(pc) == [stack EXCEPT ![Len(stack)].pc = pc]

Call(pc, f) == Append(Goto(pc), f)

Popped == SubSeq(stack, 1, Len(stack) - 1)

Return(r) == stack' = Popped /\ ret' = r

\* A panic or a stack overflow ends the process where it stands.
Crash(kind) == stack' = <<>> /\ ret' = kind

\* An entry of the trace: the operation, its package, and a remark.
Note(e, p, res) == [e |-> e, p |-> p, res |-> res]

Event(e, p) == Note(e, p, "Ok")

\* What is on disk for a package when a command starts.
StatusAtStart(p) ==
    IF \A q \in Names : db[q] = NoPackageDir THEN "fresh"
    ELSE IF p \notin Names THEN "none"
    ELSE IF is_installed(p, db).some THEN "installed"
    ELSE IF is_built(p, db).some THEN "built"
    ELSE "absent"

\* A new process: main.rs parses the command and calls the coordinator.
Start(fn, pkg, pc) ==
    /\ Idle
    /\ stack' = <<Frame(fn, pkg, pc)>>
    /\ ret' = "none"
    /\ trace' = <<Note(fn, pkg, StatusAtStart(pkg))>>
    /\ cwd' = <<"start">>
    /\ UNCHANGED <<repo, db, sys, overflowChecks, rlimit>>

\* The process exits.
Exit ==
    /\ Finished
    /\ ret' = "idle"
    /\ trace' = <<>>
    /\ cwd' = <<"start">>
    /\ UNCHANGED <<repo, db, sys, stack, overflowChecks, rlimit>>

\* main.rs:59-73, the install subcommand
StartInstall == \E p \in Names : Start("install", p, "check")

\* main.rs:75-87, the build subcommand
StartBuild == \E p \in Names : Start("build", p, "deps")

\* main.rs:107-122, the remove subcommand
StartRemove == \E p \in Names : Start("remove", p, "call")

\* main.rs:88-106, the update subcommand
StartUpdate == Start("update_repository", "", "check")

---------------------------------------------------------------------------
(* Package::build, package.rs:121-154.                                     *)

\* package.rs:125-127 structure.create_all()
PackageBuildCreateAll ==
    /\ At("Package.build", "create_all")
    /\ db' = [db EXCEPT ![Top.pkg] = create_all(db[Top.pkg])]
    /\ trace' = Append(trace, Note("build_begin", Top.pkg,
                            IF ~db[Top.pkg].version.exists THEN "none"
                            ELSE IF db[Top.pkg].version.content = PackageVersion(Top.pkg)
                                 THEN "same" ELSE "different"))
    /\ stack' = Goto("rm_version")
    /\ UNCHANGED <<repo, sys, cwd, ret, overflowChecks, rlimit>>

\* package.rs:133-135: an existing version file is removed
PackageBuildRemoveVersion ==
    /\ At("Package.build", "rm_version")
    /\ db' = [db EXCEPT ![Top.pkg].version =
                 IF db[Top.pkg].version.exists THEN NoFile ELSE db[Top.pkg].version]
    /\ stack' = Goto("write_version")
    /\ UNCHANGED <<repo, sys, cwd, ret, trace, overflowChecks, rlimit>>

\* The version file of the repository copied as it is.
VersionBytesRaw(p) == repo.pkg[p].version

\* What Package::build writes into the version file (package.rs:130).
VersionBytes(p) == PackageVersion(p)

\* package.rs:137-138: File::create(version_file), write_all(bytes)
PackageBuildWriteVersion ==
    /\ At("Package.build", "write_version")
    /\ IF db[Top.pkg].dir
       THEN /\ db' = [db EXCEPT ![Top.pkg].version =
                         [exists |-> TRUE, content |-> VersionBytes(Top.pkg)]]
            /\ stack' = Goto("chdir")
            /\ UNCHANGED ret
       ELSE /\ Return("NoDirectory")
            /\ UNCHANGED db
    /\ UNCHANGED <<repo, sys, cwd, trace, overflowChecks, rlimit>>

\* Package::build without line 141: the working directory stays.
PackageBuildChdirSkipped ==
    /\ At("Package.build", "chdir")
    /\ stack' = Goto("spawn")
    /\ UNCHANGED <<repo, db, sys, cwd, ret, trace, overflowChecks, rlimit>>

\* package.rs:141 set_current_dir(files_dir)
PackageBuildChdir ==
    /\ At("Package.build", "chdir")
    /\ IF db[Top.pkg].files
       THEN /\ cwd' = FilesDir(Top.pkg)
            /\ stack' = Goto("spawn")
            /\ UNCHANGED ret
       ELSE /\ Return("NoDirectory")
            /\ UNCHANGED cwd
    /\ UNCHANGED <<repo, db, sys, trace, overflowChecks, rlimit>>

\* The entries of a subtree after the install script added the entries add
\* to it: what is there stays, in place, and the new names follow.
RECURSIVE AddEntries(_, _)
AddEntries(entries, add) ==
    IF add = <<>> THEN entries
    ELSE IF (\E k \in 1..Len(entries) : entries[k] = Head(add))
            \/ Len(entries) >= MaxEntries
         THEN AddEntries(entries, Tail(add))
         ELSE AddEntries(Append(entries, Head(add)), Tail(add))

\* The sandbox after the install script wrote the artefacts art (per child, a
\* sequence of entry names) below the files directory.
AfterScript(d, art) ==
    [d EXCEPT !.child = [i \in ChildIdx |->
        IF d.child[i].exists
        THEN [exists |-> TRUE, entries |-> AddEntries(d.child[i].entries, art[i])]
        ELSE d.child[i]]]

\* package.rs:143-151: the install script is spawned and waited for; its exit
\* status is not read.  Without an install script the spawn fails.
PackageBuildSpawn(artefacts) ==
    /\ At("Package.build", "spawn")
    /\ IF repo.pkg[Top.pkg].script
       THEN /\ \E art \in artefacts :
                  db' = [db EXCEPT ![Top.pkg] = AfterScript(db[Top.pkg], art)]
            /\ trace' = Append(trace, Event("built", Top.pkg))
            /\ Return("Ok")
       ELSE /\ Return("NoInstallScript")
            /\ UNCHANGED <<db, trace>>
    /\ UNCHANGED <<repo, sys, cwd, overflowChecks, rlimit>>

---------------------------------------------------------------------------
(* Package::install, package.rs:156-163.                                   *)

\* Package::install without line 158: no marker is written.
PackageInstallMarkerSkipped ==
    /\ At("Package.install", "marker")
    /\ stack' = Goto("symlink")
    /\ UNCHANGED <<repo, db, sys, cwd, ret, trace, overflowChecks, rlimit>>

\* package.rs:158 File::create(installed_dir.join("installed")), its result
\* dropped: the marker appears when the package directory exists.
PackageInstallMarker ==
    /\ At("Package.install", "marker")
    /\ IF db[Top.pkg].dir
       THEN /\ db' = [db EXCEPT ![Top.pkg].marker = TRUE]
            /\ trace' = Append(trace, Event("marker", Top.pkg))
       ELSE UNCHANGED <<db, trace>>
    /\ stack' = Goto("symlink")
    /\ UNCHANGED <<repo, sys, cwd, ret, overflowChecks, rlimit>>

\* package.rs:160-162 structure.symlink_out_scope().map_err(LinkError)
PackageInstallSymlink ==
    /\ At("Package.install", "symlink")
    /\ LET r == symlink_out_scope(Top.pkg, db[Top.pkg], sys, rlimit) IN
        /\ sys' = r.sys
        /\ CASE r.res = "Ok" ->
                    /\ Return("Ok")
                    /\ trace' = Append(trace, Event("installed", Top.pkg))
             [] r.res = "Err" -> Return("LinkError") /\ UNCHANGED trace
             [] OTHER -> Crash(r.res) /\ UNCHANGED trace
    /\ UNCHANGED <<repo, db, cwd, overflowChecks, rlimit>>

---------------------------------------------------------------------------
(* Package::uninstall and Package::remove_binaries, package.rs:165-189.    *)

\* Package::uninstall without the test of lines 166-168.
PackageUninstallUnchecked ==
    /\ At("Package.uninstall", "check")
    /\ stack' = Goto("remove_binaries")
    /\ UNCHANGED <<repo, db, sys, cwd, ret, trace, overflowChecks, rlimit>>

\* package.rs:166-168
PackageUninstallCheck ==
    /\ At("Package.uninstall", "check")
    /\ IF is_built(Top.pkg, db).some
       THEN stack' = Goto("remove_binaries") /\ UNCHANGED ret
       ELSE Return("NotInstalled")
    /\ UNCHANGED <<repo, db, sys, cwd, trace, overflowChecks, rlimit>>

\* remove_binaries without the call of remove_symlinks.
RemoveBinariesKeepingLinks(fn, next) ==
    /\ At(fn, "remove_binaries")
    /\ stack' = Goto(next)
    /\ trace' = Append(trace, Note("withdrawn", Top.pkg, "none"))
    /\ UNCHANGED <<repo, db, sys, cwd, ret, overflowChecks, rlimit>>

\* package.rs:183-189 remove_binaries: structure.remove_symlinks(); called
\* from uninstall (line 173) and from update (line 114).
RemoveBinaries(fn, next) ==
    /\ At(fn, "remove_binaries")
    /\ LET r == remove_symlinks(Top.pkg, db[Top.pkg], sys, rlimit) IN
        /\ sys' = r.sys
        /\ CASE r.res = "Ok" ->
                    /\ stack' = Goto(next)
                    /\ trace' = Append(trace, Note("withdrawn", Top.pkg,
                                   IF \E l \in sys : l.p = Top.pkg THEN "links" ELSE "none"))
                    /\ UNCHANGED ret
             [] r.res = "Err" -> Return("NoDirectory") /\ UNCHANGED trace
             [] OTHER -> Crash(r.res) /\ UNCHANGED trace
    /\ UNCHANGED <<repo, db, cwd, overflowChecks, rlimit>>

PackageUninstallRemoveBinaries == RemoveBinaries("Package.uninstall", "delete_all")

\* package.rs:176-178 structure.delete_all(), one path of its loop per step
PackageUninstallDeleteAll ==
    /\ At("Package.uninstall", "delete_all")
    /\ db' = [db EXCEPT ![Top.pkg] = DeletePath(db[Top.pkg], Top.i)]
    /\ IF Top.i < Len(get_path_bufs)
       THEN stack' = [stack EXCEPT ![Len(stack)].i = Top.i + 1] /\ UNCHANGED ret
       ELSE Return("Ok")
    /\ UNCHANGED <<repo, sys, cwd, trace, overflowChecks, rlimit>>

---------------------------------------------------------------------------
(* Package::update, package.rs:113-119.                                    *)

PackageUpdateRemoveBinaries == RemoveBinaries("Package.update", "build")

\* package.rs:115 self.build()?
PackageUpdateBuild ==
    /\ At("Package.update", "build")
    /\ stack' = Call("after_build", Frame("Package.build", Top.pkg, "create_all"))
    /\ UNCHANGED <<repo, db, sys, cwd, ret, trace, overflowChecks, rlimit>>

\* Package::update with line 115 as `let _ = self.build();`.
PackageUpdateInstallAlways ==
    /\ At("Package.update", "after_build")
    /\ stack' = Call("after_install", Frame("Package.install", Top.pkg, "marker"))
    /\ UNCHANGED <<repo, db, sys, cwd, ret, trace, overflowChecks, rlimit>>

\* package.rs:115-116: build's error is returned, otherwise self.install()?
PackageUpdateInstall ==
    /\ At("Package.update", "after_build")
    /\ IF ret = "Ok"
       THEN /\ stack' = Call("after_install", Frame("Package.install", Top.pkg, "marker"))
            /\ UNCHANGED ret
       ELSE Return(ret)
    /\ UNCHANGED <<repo, db, sys, cwd, trace, overflowChecks, rlimit>>

\* package.rs:116-118, with error.rs:45-52 (LinkError becomes Other)
PackageUpdateReturn ==
    /\ At("Package.update", "after_install")
    /\ Return(IF ret = "Ok" THEN "Ok" ELSE "Other")
    /\ UNCHANGED <<repo, db, sys, cwd, trace, overflowChecks, rlimit>>

---------------------------------------------------------------------------
(* The coordinator, front/src/handle.rs.                                   *)

\* handle.rs:46-50 install: build when is_built is None, then package.install()
InstallCheckBuilt ==
    /\ At("install", "check")
    /\ IF is_built(Top.pkg, db).some
       THEN stack' = Call("after_install", Frame("Package.install", Top.pkg, "marker"))
       ELSE stack' = Call("after_build", Frame("build", Top.pkg, "deps"))
    /\ UNCHANGED <<repo, db, sys, cwd, ret, trace, overflowChecks, rlimit>>

\* handle.rs:47 build(package, packages)? and then handle.rs:50
InstallAfterBuild ==
    /\ At("install", "after_build")
    /\ IF ret = "Ok"
       THEN /\ stack' = Call("after_install", Frame("Package.install", Top.pkg, "marker"))
            /\ UNCHANGED ret
       ELSE Return(ret)
    /\ UNCHANGED <<repo, db, sys, cwd, trace, overflowChecks, rlimit>>

\* handle.rs:50-68: a failed package.install() is reported as CompileFail
InstallReturn ==
    /\ At("install", "after_install")
    /\ Return(IF ret = "Ok" THEN "Ok" ELSE "CompileFail")
    /\ UNCHANGED <<repo, db, sys, cwd, trace, overflowChecks, rlimit>>

\* handle.rs:6-21 build: the next name of package.depends is looked up among
\* the packages and installed; after the last one, handle.rs:23 package.build()
BuildNextDepend ==
    /\ At("build", "deps")
    /\ LET deps == PackageDepends(Top.pkg) IN
       IF Top.i <= Len(deps)
       THEN IF deps[Top.i] \in Names
            THEN /\ stack' = Call("after_dep", Frame("install", deps[Top.i], "check"))
                 /\ UNCHANGED ret
            ELSE Return("NoDependFound")
       ELSE /\ stack' = Call("after_build", Frame("Package.build", Top.pkg, "create_all"))
            /\ UNCHANGED ret
    /\ UNCHANGED <<repo, db, sys, cwd, trace, overflowChecks, rlimit>>

\* handle.rs:13 with the error of a dependency's install dropped.
BuildAfterDependIgnoring ==
    /\ At("build", "after_dep")
    /\ stack' = [stack EXCEPT ![Len(stack)].pc = "deps",
                              ![Len(stack)].i = Top.i + 1]
    /\ trace' = IF ret = "Ok" THEN trace
                ELSE Append(trace, Note("dep_failed", Top.pkg, ret))
    /\ UNCHANGED <<repo, db, sys, cwd, ret, overflowChecks, rlimit>>

\* handle.rs:13 install(&package, &packages)?  The trace notes the error of a
\* dependency's install against the dependent.
BuildAfterDepend ==
    /\ At("build", "after_dep")
    /\ IF ret = "Ok"
       THEN /\ stack' = [stack EXCEPT ![Len(stack)].pc = "deps",
                                     ![Len(stack)].i = Top.i + 1]
            /\ UNCHANGED <<ret, trace>>
       ELSE /\ Return(ret)
            /\ trace' = Append(trace, Note("dep_failed", Top.pkg, ret))
    /\ UNCHANGED <<repo, db, sys, cwd, overflowChecks, rlimit>>

\* build going on to package.install() after a successful package.build(), as
\* install does.
BuildReturnInstalling ==
    /\ At("build", "after_build")
    /\ IF ret = "Ok"
       THEN /\ stack' = Append(Popped, Frame("Package.install", Top.pkg, "marker"))
            /\ UNCHANGED ret
       ELSE Return("CompileFail")
    /\ UNCHANGED <<repo, db, sys, cwd, trace, overflowChecks, rlimit>>

\* handle.rs:23-42: a failed package.build() is reported as CompileFail
BuildReturn ==
    /\ At("build", "after_build")
    /\ Return(IF ret = "Ok" THEN "Ok" ELSE "CompileFail")
    /\ UNCHANGED <<repo, db, sys, cwd, trace, overflowChecks, rlimit>>

\* handle.rs:98 package.uninstall()
RemoveCall ==
    /\ At("remove", "call")
    /\ stack' = Call("after", Frame("Package.uninstall", Top.pkg, "check"))
    /\ UNCHANGED <<repo, db, sys, cwd, ret, trace, overflowChecks, rlimit>>

\* handle.rs:98-114: a failed uninstall is reported as UninstallFail
RemoveReturn ==
    /\ At("remove", "after")
    /\ Return(IF ret = "Ok" THEN "Ok" ELSE "UninstallFail")
    /\ UNCHANGED <<repo, db, sys, cwd, trace, overflowChecks, rlimit>>

---------------------------------------------------------------------------
(* Repo::update_repository, src/repo.rs:128-183, with the callback of      *)
(* handle.rs:71-95.                                                        *)

\* repo.rs:132-140: the working directory is read, the update script looked
\* for, and the repository directory entered
UpdateRepositoryEnter ==
    /\ At("update_repository", "check")
    /\ IF repo.update = "absent"
       THEN Return("NoUpdateScript") /\ UNCHANGED cwd
       ELSE /\ stack' = [stack EXCEPT ![Len(stack)].pc = "script",
                                     ![Len(stack)].saved = cwd]
            /\ cwd' = <<"repo">>
            /\ UNCHANGED ret
    /\ UNCHANGED <<repo, db, sys, trace, overflowChecks, rlimit>>

\* repo.rs:143-147: the update script is spawned and waited for; it rewrites
\* the package definitions.  A script that cannot be executed fails the spawn.
UpdateRepositoryScript(definitions) ==
    /\ At("update_repository", "script")
    /\ IF repo.update = "ok"
       THEN /\ \E pk \in definitions : repo' = [repo EXCEPT !.pkg = pk]
            /\ stack' = Goto("restore")
            /\ UNCHANGED ret
       ELSE Return("UpdateScriptError") /\ UNCHANGED repo
    /\ UNCHANGED <<db, sys, cwd, trace, overflowChecks, rlimit>>

\* repo.rs:149-151: back to the saved working directory
UpdateRepositoryRestore ==
    /\ At("update_repository", "restore")
    /\ cwd' = Top.saved
    /\ stack' = Goto("loop")
    /\ UNCHANGED <<repo, db, sys, ret, trace, overflowChecks, rlimit>>

\* repo.rs:173 without the `if let Ok`: a comparison that failed invokes the
\* callback as well.
InvokesCallbackOnError(x, y) ==
    LET cmp == comparse_version(x, y) IN ~cmp.ok \/ ~(cmp.val < 0)

\* The test of repo.rs:174 as val <= 1 in place of val < 0.
InvokesCallbackAboveOne(x, y) ==
    LET cmp == comparse_version(x, y) IN cmp.ok /\ ~(cmp.val <= 1)

\* repo.rs:173-178: whether the callback is invoked on the compared versions
InvokesCallback(x, y) ==
    LET cmp == comparse_version(x, y) IN cmp.ok /\ ~(cmp.val < 0)

\* repo.rs:154-180, one iteration: a package that is not installed is passed
\* over; for an installed one the versions are compared and the callback is
\* called or not.  After the last package, Ok.  The trace notes, for an
\* installed package, what was done and the installed version it was done on.
UpdateRepositoryLoop ==
    /\ At("update_repository", "loop")
    /\ IF Top.i > Len(PkgOrder)
       THEN Return("Ok") /\ UNCHANGED trace
       ELSE LET p == PkgOrder[Top.i]
                data == is_installed(p, db)
            IN  /\ UNCHANGED ret
                /\ IF ~data.some
                   THEN /\ stack' = [stack EXCEPT ![Len(stack)].i = Top.i + 1]
                        /\ UNCHANGED trace
                   ELSE IF InvokesCallback(PackageVersion(p), data.version)
                   THEN /\ stack' = Call("after_callback", Frame("callback", p, "call"))
                        /\ trace' = Append(trace, Note("callback", p, data.version))
                   ELSE /\ stack' = [stack EXCEPT ![Len(stack)].i = Top.i + 1]
                        /\ trace' = Append(trace, Note("skipped", p, data.version))
    /\ UNCHANGED <<repo, db, sys, cwd, overflowChecks, rlimit>>

\* repo.rs:178 update_callback(..)?: an error ends the loop
UpdateRepositoryAfterCallback ==
    /\ At("update_repository", "after_callback")
    /\ IF ret = "Ok"
       THEN /\ stack' = [stack EXCEPT ![Len(stack)].pc = "loop",
                                     ![Len(stack)].i = Top.i + 1]
            /\ UNCHANGED ret
       ELSE Return(ret)
    /\ UNCHANGED <<repo, db, sys, cwd, trace, overflowChecks, rlimit>>

\* handle.rs:72-79: the callback calls package.update()
CallbackCall ==
    /\ At("callback", "call")
    /\ stack' = Call("after", Frame("Package.update", Top.pkg, "remove_binaries"))
    /\ UNCHANGED <<repo, db, sys, cwd, ret, trace, overflowChecks, rlimit>>

\* The callback with `package.update()?` in place of the match that prints.
CallbackReturnPropagating ==
    /\ At("callback", "after")
    /\ trace' = Append(trace, Note("updated", Top.pkg, ret))
    /\ Return(ret)
    /\ UNCHANGED <<repo, db, sys, cwd, overflowChecks, rlimit>>

\* handle.rs:79-93: the result of package.update() is printed ("Updated" or
\* "Failed to update", noted in the trace), and Ok returned
CallbackReturn ==
    /\ At("callback", "after")
    /\ trace' = Append(trace, Note("updated", Top.pkg, ret))
    /\ Return("Ok")
    /\ UNCHANGED <<repo, db, sys, cwd, overflowChecks, rlimit>>

---------------------------------------------------------------------------
(* The lifecycle specification: three packages, every command.             *)

Definition(version, depends, script) ==
    [version |-> version, depends |-> depends, script |-> script]

\* The package definitions the repository can hold: a is at version 1 or 2
\* and depends on b alone, on b and c, or on b and a package no repository
\* has; b depends on c.
Definitions ==
    {[a |-> Definition(va, da, TRUE),
      b |-> Definition(<<"1">>, <<"c">>, TRUE),
      c |-> Definition(<<"1">>, <<>>, TRUE)] :
        va \in {<<"1">>, <<"2", "LF">>},
        da \in {<<"b">>, <<"b", "c">>, <<"b", Missing>>}}

NoArtefacts == [i \in ChildIdx |-> <<>>]

\* What the install scripts write: nothing, or one binary into usr/bin.
Artefacts == {NoArtefacts, [NoArtefacts EXCEPT ![1] = <<"f1">>]}

Init ==
    /\ repo \in {[update |-> "ok", pkg |-> pk] : pk \in Definitions}
    /\ db = [p \in Names |-> NoPackageDir]
    /\ sys = {}
    /\ cwd = <<"start">>
    /\ stack = <<>>
    /\ ret = "idle"
    /\ trace = <<>>
    /\ overflowChecks \in BOOLEAN
    /\ rlimit = "fd"

BuildScript == PackageBuildSpawn(Artefacts)

UpdateScript == UpdateRepositoryScript(Definitions)

PackageStep ==
    \/ PackageBuildCreateAll
    \/ PackageBuildRemoveVersion
    \/ PackageBuildWriteVersion
    \/ PackageBuildChdir
    \/ PackageInstallMarker
    \/ PackageInstallSymlink
    \/ PackageUninstallCheck
    \/ PackageUninstallRemoveBinaries
    \/ PackageUninstallDeleteAll
    \/ PackageUpdateRemoveBinaries
    \/ PackageUpdateBuild
    \/ PackageUpdateInstall
    \/ PackageUpdateReturn

CoordinatorStep ==
    \/ InstallCheckBuilt
    \/ InstallAfterBuild
    \/ InstallReturn
    \/ BuildNextDepend
    \/ BuildAfterDepend
    \/ BuildReturn
    \/ RemoveCall
    \/ RemoveReturn

UpdateStep ==
    \/ UpdateRepositoryEnter
    \/ UpdateRepositoryRestore
    \/ UpdateRepositoryLoop
    \/ UpdateRepositoryAfterCallback
    \/ CallbackCall
    \/ CallbackReturn

Next ==
    \/ StartInstall
    \/ StartBuild
    \/ StartRemove
    \/ StartUpdate
    \/ Exit
    \/ PackageStep
    \/ BuildScript
    \/ CoordinatorStep
    \/ UpdateStep
    \/ UpdateScript

Spec == Init /\ [][Next]_vars

---------------------------------------------------------------------------
(* The structure specification: the operations of the FileStructure trait  *)
(* called directly on the sandbox of one built package.                    *)

\* The package whose structure is exercised.
Subject == "a"

Entries == FileNames \cup DirNames

\* The contents of one subtree: the entries in read_dir order, none twice.
EntrySeqs ==
    UNION {{q \in [1..n -> Entries] : \A i, j \in 1..n : q[i] = q[j] => i = j} :
               n \in 0..MaxEntries}

RECURSIVE TotalEntries(_, _)
TotalEntries(l, k) ==
    IF k > Len(Children) THEN 0 ELSE Len(l[k]) + TotalEntries(l, k + 1)

\* The sandboxes an install script can have left: per subtree a sequence of
\* entries, at most MaxEntries entries in all.
Layouts == {l \in [ChildIdx -> EntrySeqs] : TotalEntries(l, 1) <= MaxEntries}

BuiltSandbox(l) ==
    [dir |-> TRUE, version |-> [exists |-> TRUE, content |-> <<"1">>],
     marker |-> FALSE, files |-> TRUE,
     child |-> [i \in ChildIdx |-> [exists |-> TRUE, entries |-> l[i]]]]

InitStructure ==
    /\ repo = [update |-> "ok",
               pkg |-> [p \in Names |-> Definition(<<"1">>, <<>>, TRUE)]]
    /\ \E l \in Layouts :
          db = [p \in Names |-> IF p = Subject THEN BuiltSandbox(l) ELSE NoPackageDir]
    /\ sys = {}
    /\ cwd = <<"start">>
    /\ stack = <<>>
    /\ ret = "idle"
    /\ trace = <<>>
    /\ overflowChecks \in BOOLEAN
    /\ rlimit \in {"fd", "stack"}

\* The trace keeps the last two calls, each with the symlinks it left.
Remember(ev) == IF trace = <<>> THEN <<ev>> ELSE <<trace[Len(trace)], ev>>

\* FileStructure::symlink_out_scope (structure.rs:127) called on the package
StructureSymlinkOutScope ==
    /\ Idle
    /\ LET r == symlink_out_scope(Subject, db[Subject], sys, rlimit) IN
        /\ sys' = r.sys
        /\ trace' = Remember([e |-> "symlink_out_scope", p |-> Subject, res |-> r.res,
                           links |-> r.sys])
    /\ UNCHANGED <<repo, db, cwd, stack, ret, overflowChecks, rlimit>>

\* FileStructure::remove_symlinks (structure.rs:166) called on the package
StructureRemoveSymlinks ==
    /\ Idle
    /\ LET r == remove_symlinks(Subject, db[Subject], sys, rlimit) IN
        /\ sys' = r.sys
        /\ trace' = Remember([e |-> "remove_symlinks", p |-> Subject, res |-> r.res,
                           links |-> r.sys])
    /\ UNCHANGED <<repo, db, cwd, stack, ret, overflowChecks, rlimit>>

NextStructure ==
    \/ StructureSymlinkOutScope
    \/ StructureRemoveSymlinks

SpecStructure == InitStructure /\ [][NextStructure]_vars

---------------------------------------------------------------------------
(* The update specification: packages without dependencies, installed at   *)
(* any version, and a repository whose update script sets any version.     *)

\* A version whose digits are above i32::MAX.
TooLong == <<"2", "1", "4", "7", "4", "8", "3", "6", "4", "8">>

\* The version files a repository can hold.
VersionFiles == {<<"1">>, <<"2", "LF">>, <<"3">>, <<"v">>, TooLong}

UpdateDefinitions ==
    {[a |-> Definition(va, <<>>, sa),
      b |-> Definition(vb, <<>>, TRUE),
      c |-> Definition(<<"1">>, <<>>, TRUE)] :
        va \in VersionFiles, vb \in VersionFiles, sa \in BOOLEAN}

\* A package as an earlier install at the version file v left it: built, the
\* marker written, an empty sandbox.
InstalledAt(v) ==
    [dir |-> TRUE,
     version |-> [exists |-> TRUE, content |-> StripWhitespace(v)],
     marker |-> TRUE, files |-> TRUE,
     child |-> [i \in ChildIdx |-> EmptyChild]]

InitUpdate ==
    /\ \E pk \in UpdateDefinitions : repo = [update |-> "ok", pkg |-> pk]
    /\ \E da \in {NoPackageDir} \cup {InstalledAt(v) : v \in VersionFiles},
          dj \in {NoPackageDir} \cup {InstalledAt(v) : v \in VersionFiles} :
          db = [p \in Names |-> IF p = "a" THEN da ELSE IF p = "b" THEN dj
                                ELSE NoPackageDir]
    /\ sys = {}
    /\ cwd = <<"start">>
    /\ stack = <<>>
    /\ ret = "idle"
    /\ trace = <<>>
    /\ overflowChecks \in BOOLEAN
    /\ rlimit = "fd"

UpdateScriptVersions == UpdateRepositoryScript(UpdateDefinitions)

NextUpdate ==
    \/ StartUpdate
    \/ Exit
    \/ UpdateStep
    \/ UpdateScriptVersions
    \/ PackageUpdateRemoveBinaries
    \/ PackageUpdateBuild
    \/ PackageUpdateInstall
    \/ PackageUpdateReturn
    \/ PackageBuildCreateAll
    \/ PackageBuildRemoveVersion
    \/ PackageBuildWriteVersion
    \/ PackageBuildChdir
    \/ BuildScript
    \/ PackageInstallMarker
    \/ PackageInstallSymlink

SpecUpdate == InitUpdate /\ [][NextUpdate]_vars

---------------------------------------------------------------------------
(* The build specification: Package::build called on one package, on a      *)
(* file system that can refuse an operation (no permission, no space).      *)

\* package.rs:125-127: create_all returns an error, mapped to Other; build
\* returns it.  The refusal is taken at the first directory: nothing created.
PackageBuildCreateAllFails ==
    /\ At("Package.build", "create_all")
    /\ trace' = Append(trace, Note("failed", Top.pkg, "create_all"))
    /\ Return("Other")
    /\ UNCHANGED <<repo, db, sys, cwd, overflowChecks, rlimit>>

\* package.rs:137-138: File::create or write_all returns an error; build
\* returns it.
PackageBuildWriteVersionFails ==
    /\ At("Package.build", "write_version")
    /\ trace' = Append(trace, Note("failed", Top.pkg, "write_version"))
    /\ Return("Other")
    /\ UNCHANGED <<repo, db, sys, cwd, overflowChecks, rlimit>>

\* package.rs:141: set_current_dir returns an error; build returns it.
PackageBuildChdirFails ==
    /\ At("Package.build", "chdir")
    /\ trace' = Append(trace, Note("failed", Top.pkg, "chdir"))
    /\ Return("Other")
    /\ UNCHANGED <<repo, db, sys, cwd, overflowChecks, rlimit>>

\* The package with or without install script, at version 1 or 2.
BuildDefinitions ==
    {[a |-> Definition(va, <<>>, sa),
      b |-> Definition(<<"1">>, <<>>, TRUE),
      c |-> Definition(<<"1">>, <<>>, TRUE)] :
        va \in {<<"1">>, <<"2", "LF">>}, sa \in BOOLEAN}

InitBuild ==
    /\ \E pk \in BuildDefinitions : repo = [update |-> "ok", pkg |-> pk]
    /\ \E d \in {NoPackageDir, InstalledAt(<<"1">>),
                 [InstalledAt(<<"1">>) EXCEPT !.marker = FALSE]} :
          db = [p \in Names |-> IF p = Subject THEN d ELSE NoPackageDir]
    /\ sys = {}
    /\ cwd = <<"start">>
    /\ stack = <<>>
    /\ ret = "idle"
    /\ trace = <<>>
    /\ overflowChecks \in BOOLEAN
    /\ rlimit = "fd"

\* package.rs:121 Package::build is called on the package
StartPackageBuild == Start("Package.build", Subject, "create_all")

NextBuild ==
    \/ StartPackageBuild
    \/ Exit
    \/ PackageBuildCreateAll
    \/ PackageBuildCreateAllFails
    \/ PackageBuildRemoveVersion
    \/ PackageBuildWriteVersion
    \/ PackageBuildWriteVersionFails
    \/ PackageBuildChdir
    \/ PackageBuildChdirFails
    \/ BuildScript

SpecBuild == InitBuild /\ [][NextBuild]_vars

---------------------------------------------------------------------------
(* The script specification: the build specification with an install       *)
(* script that can exit with a nonzero status, and a wait that can fail.   *)

\* Package::build with the exit status of the script read, a nonzero status
\* returned as FailedInstallScript.
BuildScriptStatusChecked ==
    /\ At("Package.build", "spawn")
    /\ repo.pkg[Top.pkg].script
    /\ \E art \in Artefacts :
          db' = [db EXCEPT ![Top.pkg] = AfterScript(db[Top.pkg], art)]
    /\ trace' = Append(trace, Note("built", Top.pkg, "nonzero"))
    /\ Return("FailedInstallScript")
    /\ UNCHANGED <<repo, sys, cwd, overflowChecks, rlimit>>

\* package.rs:146-153: the script is spawned, runs and exits with a nonzero
\* status; wait_with_output returns Ok(output), the output is dropped, and
\* build returns Ok.
BuildScriptExitsNonzero ==
    /\ At("Package.build", "spawn")
    /\ repo.pkg[Top.pkg].script
    /\ \E art \in Artefacts :
          db' = [db EXCEPT ![Top.pkg] = AfterScript(db[Top.pkg], art)]
    /\ trace' = Append(trace, Note("built", Top.pkg, "nonzero"))
    /\ Return("Ok")
    /\ UNCHANGED <<repo, sys, cwd, overflowChecks, rlimit>>

\* package.rs:150-151: the script is spawned and wait_with_output returns an
\* error, mapped to FailedInstallScript; what the script did stays.
BuildScriptWaitFails ==
    /\ At("Package.build", "spawn")
    /\ repo.pkg[Top.pkg].script
    /\ \E art \in Artefacts :
          db' = [db EXCEPT ![Top.pkg] = AfterScript(db[Top.pkg], art)]
    /\ trace' = Append(trace, Note("failed", Top.pkg, "wait"))
    /\ Return("FailedInstallScript")
    /\ UNCHANGED <<repo, sys, cwd, overflowChecks, rlimit>>

NextScript ==
    \/ NextBuild
    \/ BuildScriptExitsNonzero
    \/ BuildScriptWaitFails

SpecScript == InitBuild /\ [][NextScript]_vars

---------------------------------------------------------------------------
(* The directories specification: the four operations of the               *)
(* FileStructure trait called on a package directory of which any part may *)
(* exist.                                                                  *)

\* What a subtree of the sandbox can be: missing, empty, or holding a file.
ChildStates == {NoChild, EmptyChild, [exists |-> TRUE, entries |-> <<"f1">>]}

\* The package directories the file system can hold: nothing; the directory
\* without its sandbox; the sandbox with any of its subtrees.
DirStates ==
    {NoPackageDir}
      \cup {[dir |-> TRUE, version |-> v, marker |-> m, files |-> FALSE,
             child |-> [i \in ChildIdx |-> NoChild]] :
                v \in {NoFile, [exists |-> TRUE, content |-> <<"1">>]}, m \in BOOLEAN}
      \cup {[dir |-> TRUE, version |-> [exists |-> TRUE, content |-> <<"1">>],
             marker |-> m, files |-> TRUE, child |-> ch] :
                m \in BOOLEAN, ch \in [ChildIdx -> ChildStates]}

InitDirs ==
    /\ repo = [update |-> "ok",
               pkg |-> [p \in Names |-> Definition(<<"1">>, <<>>, TRUE)]]
    /\ \E d \in DirStates :
          db = [p \in Names |-> IF p = Subject THEN d ELSE NoPackageDir]
    /\ sys = {}
    /\ cwd = <<"start">>
    /\ stack = <<>>
    /\ ret = "idle"
    /\ trace = <<>>
    /\ overflowChecks \in BOOLEAN
    /\ rlimit = "fd"

\* FileStructure::create_all (structure.rs:87) called on the package
StructureCreateAll ==
    /\ Idle
    /\ db' = [db EXCEPT ![Subject] = create_all(db[Subject])]
    /\ trace' = Remember([e |-> "create_all", p |-> Subject, res |-> "Ok", links |-> sys])
    /\ UNCHANGED <<repo, sys, cwd, stack, ret, overflowChecks, rlimit>>

\* FileStructure::delete_all (structure.rs:99) called on the package
StructureDeleteAll ==
    /\ Idle
    /\ db' = [db EXCEPT ![Subject] = delete_all(db[Subject])]
    /\ trace' = Remember([e |-> "delete_all", p |-> Subject, res |-> "Ok", links |-> sys])
    /\ UNCHANGED <<repo, sys, cwd, stack, ret, overflowChecks, rlimit>>

NextDirs ==
    \/ StructureCreateAll
    \/ StructureDeleteAll
    \/ StructureSymlinkOutScope
    \/ StructureRemoveSymlinks

SpecDirs == InitDirs /\ [][NextDirs]_vars

---------------------------------------------------------------------------
(* The parsing specification: Repo::get_packages over a repository whose   *)
(* entries hold any version file and any depends file.                     *)

\* The characters a version file is made of here.
ParseChars == {"1", "v", " ", "LF"}

\* The longest version file.
MaxVersionLen == 2

\* A version file: missing, or any characters up to the length.
VersionContents ==
    {NoFile} \cup
    {[exists |-> TRUE, content |-> s] :
        s \in UNION {[1..n -> ParseChars] : n \in 0..MaxVersionLen}}

\* A depends file: missing, empty, or lines of which one is empty.
DependsContents ==
    {NoFile, [exists |-> TRUE, content |-> <<>>],
     [exists |-> TRUE, content |-> <<"b", "", "c">>]}

\* Path::file_name: the last component, none for the root and for `..`.
file_name(path) ==
    IF path = <<>> \/ path[Len(path)] = ".."
    THEN [some |-> FALSE, name |-> ""]
    ELSE [some |-> TRUE, name |-> path[Len(path)]]

\* package.rs:195-225 Package::try_from(dir): the name is the file name of
\* dir or "", the version the version file without whitespace, the depends
\* the nonempty lines of the depends file.
try_from(dir, version, depends) ==
    IF ~version.exists THEN [ok |-> FALSE, err |-> "NoVersion"]
    ELSE IF ~depends.exists THEN [ok |-> FALSE, err |-> "NoDepends"]
    ELSE [ok |-> TRUE, dir |-> dir,
          name |-> IF file_name(dir).some THEN file_name(dir).name ELSE "",
          version |-> StripWhitespace(version.content),
          depends |-> SelectSeq(depends.content, LAMBDA x : x # "")]

\* repo.rs:119-126 get_packages: every entry of the repository directory is
\* parsed, in read_dir order, and the ones that fail are dropped.
RECURSIVE get_packages(_, _)
get_packages(entries, k) ==
    IF k > Len(entries) THEN <<>>
    ELSE LET r == try_from(entries[k].path, entries[k].version, entries[k].depends)
         IN  (IF r.ok THEN <<r>> ELSE <<>>) \o get_packages(entries, k + 1)

\* The entries read_dir returns for the repository directory.
RepoEntries ==
    {<<[path |-> <<"repo", "a">>, version |-> va, depends |-> da],
       [path |-> <<"repo", "b">>, version |-> vb, depends |-> dp]>> :
        va \in VersionContents, da \in DependsContents,
        vb \in VersionContents, dp \in DependsContents}

InitParse ==
    /\ \E en \in RepoEntries : repo = [update |-> "ok", entries |-> en]
    /\ db = [p \in Names |-> NoPackageDir]
    /\ sys = {}
    /\ cwd = <<"start">>
    /\ stack = <<>>
    /\ ret = "idle"
    /\ trace = <<>>
    /\ overflowChecks = FALSE
    /\ rlimit = "fd"

\* main.rs:53-57: the packages of the repository are fetched
GetPackages ==
    /\ Idle
    /\ trace' = <<[e |-> "get_packages", p |-> "", res |-> "Ok",
                   packages |-> get_packages(repo.entries, 1)]>>
    /\ ret' = "Ok"
    /\ UNCHANGED <<repo, db, sys, cwd, stack, overflowChecks, rlimit>>

NextParse ==
    \/ GetPackages
    \/ Exit

SpecParse == InitParse /\ [][NextParse]_vars

---------------------------------------------------------------------------
(* The versions specification: comparse_version applied to any two version *)
(* strings.                                                                *)

\* The characters a version string is made of here.
VersionChars == {"0", "1", "9", ".", "v"}

\* i32::MAX in digits, with and without separators, and the number after it.
MaxDigits == <<"2", "1", "4", "7", "4", "8", "3", "6", "4", "7">>

MaxDotted == <<"2", ".", "1", "4", "7", ".", "4", "8", "3", ".", "6", "4", "7">>

\* The version strings compared: all the short ones, and the ones around the
\* largest i32.
VersionStrings ==
    UNION {[1..n -> VersionChars] : n \in 0..MaxVersionLen}
      \cup {MaxDigits, MaxDotted, TooLong, <<"0">> \o MaxDigits}

InitVersions ==
    /\ \E x \in VersionStrings, y \in VersionStrings :
          repo = [update |-> "ok", x |-> x, y |-> y]
    /\ db = [p \in Names |-> NoPackageDir]
    /\ sys = {}
    /\ cwd = <<"start">>
    /\ stack = <<>>
    /\ ret = "idle"
    /\ trace = <<>>
    /\ overflowChecks = FALSE
    /\ rlimit = "fd"

\* repo.rs:171 comparse_version(&x, &y) on the repository version x and the
\* installed version y
CompareVersions ==
    /\ Idle
    /\ LET cmp == comparse_version(repo.x, repo.y) IN
        /\ trace' = <<[e |-> "comparse_version", p |-> "",
                       res |-> IF cmp.ok THEN "Ok" ELSE "Err", val |-> cmp.val]>>
        /\ ret' = IF cmp.ok THEN "Ok" ELSE "Err"
    /\ UNCHANGED <<repo, db, sys, cwd, stack, overflowChecks, rlimit>>

NextVersions ==
    \/ CompareVersions
    \/ Exit

SpecVersions == InitVersions /\ [][NextVersions]_vars

---------------------------------------------------------------------------
(* The projection specification: the coordinator's install called, any     *)
(* number of times, on one built package with any sandbox.                 *)

\* main.rs:59-73, the install subcommand for the package
StartInstallSubject == Start("install", Subject, "check")

NextLink ==
    \/ StartInstallSubject
    \/ Exit
    \/ InstallCheckBuilt
    \/ PackageInstallMarker
    \/ PackageInstallSymlink
    \/ InstallReturn

SpecLink == InitStructure /\ [][NextLink]_vars

---------------------------------------------------------------------------
(* The walk specification: projection and withdrawal over a sandbox in     *)
(* which the install script also left symbolic links to directories.       *)

\* The contents of one subtree, links to directories included.
LinkEntrySeqs ==
    UNION {{q \in [1..n -> Entries \cup DirLinkNames] :
                \A i, j \in 1..n : q[i] = q[j] => i = j} : n \in 0..MaxEntries}

LinkLayouts == {l \in [ChildIdx -> LinkEntrySeqs] : TotalEntries(l, 1) <= MaxEntries}

InitWalk ==
    /\ repo = [update |-> "ok",
               pkg |-> [p \in Names |-> Definition(<<"1">>, <<>>, TRUE)]]
    /\ \E l \in LinkLayouts :
          db = [p \in Names |-> IF p = Subject THEN BuiltSandbox(l) ELSE NoPackageDir]
    /\ sys = {}
    /\ cwd = <<"start">>
    /\ stack = <<>>
    /\ ret = "idle"
    /\ trace = <<>>
    /\ overflowChecks \in BOOLEAN
    /\ rlimit \in {"fd", "stack"}

SpecWalk == InitWalk /\ [][NextStructure]_vars

---------------------------------------------------------------------------
(* The foreign-file specification: the structure operations on a system    *)
(* whose directories already hold files that no projection created.        *)

\* What a path of the system directories leads to when it is not a symlink to
\* a sandbox file: a file put there by something else.
Foreign == "foreign"

\* The system directories in which such a file is considered.
ForeignChildren == {1, 2}

\* Files of other origin at the paths /<child>/<id> of the package.
ForeignFiles ==
    {[c |-> c, p |-> Subject, leaf |-> "", to |-> Foreign] : c \in ForeignChildren}

InitForeign ==
    /\ repo = [update |-> "ok",
               pkg |-> [p \in Names |-> Definition(<<"1">>, <<>>, TRUE)]]
    /\ \E l \in Layouts :
          db = [p \in Names |-> IF p = Subject THEN BuiltSandbox(l) ELSE NoPackageDir]
    /\ sys \in SUBSET ForeignFiles
    /\ cwd = <<"start">>
    /\ stack = <<>>
    /\ ret = "idle"
    /\ trace = <<>>
    /\ overflowChecks \in BOOLEAN
    /\ rlimit \in {"fd", "stack"}

SpecForeign == InitForeign /\ [][NextStructure]_vars

---------------------------------------------------------------------------
(* The retry specification: the coordinator's install of one package,      *)
(* with or without install script, on a file system that can refuse an     *)
(* operation, started again after it failed.                               *)

InitRetry ==
    /\ \E pk \in BuildDefinitions : repo = [update |-> "ok", pkg |-> pk]
    /\ db = [p \in Names |-> NoPackageDir]
    /\ sys = {}
    /\ cwd = <<"start">>
    /\ stack = <<>>
    /\ ret = "idle"
    /\ trace = <<>>
    /\ overflowChecks \in BOOLEAN
    /\ rlimit = "fd"

NextRetry ==
    \/ StartInstallSubject
    \/ Exit
    \/ InstallCheckBuilt
    \/ InstallAfterBuild
    \/ InstallReturn
    \/ BuildNextDepend
    \/ BuildReturn
    \/ PackageBuildCreateAll
    \/ PackageBuildCreateAllFails
    \/ PackageBuildRemoveVersion
    \/ PackageBuildWriteVersion
    \/ PackageBuildWriteVersionFails
    \/ PackageBuildChdir
    \/ PackageBuildChdirFails
    \/ BuildScript
    \/ PackageInstallMarker
    \/ PackageInstallSymlink

SpecRetry == InitRetry /\ [][NextRetry]_vars

---------------------------------------------------------------------------
(* The repeated-update specification: update_repository run a second time  *)
(* on the repository as the first run left it.                             *)

\* The trace entry that marks the start of the second run.
Again == Note("update_repository", "", "again")

SecondRun == \E k \in 1..Len(trace) : trace[k] = Again

\* main.rs:88-106, the update subcommand given once more after it returned Ok;
\* the trace of the first run is kept.
StartUpdateAgain ==
    /\ Finished
    /\ ret = "Ok"
    /\ trace # <<>> /\ trace[1].e = "update_repository"
    /\ ~SecondRun
    /\ stack' = <<Frame("update_repository", "", "check")>>
    /\ ret' = "none"
    /\ trace' = Append(trace, Again)
    /\ cwd' = <<"start">>
    /\ UNCHANGED <<repo, db, sys, overflowChecks, rlimit>>

\* The update script of the first run sets any version.
FirstUpdateScript == ~SecondRun /\ UpdateRepositoryScript(UpdateDefinitions)

\* The update script of the second run finds nothing new: the definitions
\* stay as they are.
SecondUpdateScript == SecondRun /\ UpdateRepositoryScript({repo.pkg})

NextTwice ==
    \/ StartUpdate
    \/ StartUpdateAgain
    \/ Exit
    \/ UpdateStep
    \/ FirstUpdateScript
    \/ SecondUpdateScript
    \/ PackageUpdateRemoveBinaries
    \/ PackageUpdateBuild
    \/ PackageUpdateInstall
    \/ PackageUpdateReturn
    \/ PackageBuildCreateAll
    \/ PackageBuildRemoveVersion
    \/ PackageBuildWriteVersion
    \/ PackageBuildChdir
    \/ BuildScript
    \/ PackageInstallMarker
    \/ PackageInstallSymlink

SpecTwice == InitUpdate /\ [][NextTwice]_vars

---------------------------------------------------------------------------
(* The concurrent specification: two coordinator processes on the same     *)
(* package, one running install and the other remove, with nothing that    *)
(* keeps one out while the other runs.  The frames of the process that     *)
(* runs are on top of the stack; below them a frame that holds what the    *)
(* waiting process returned last and its working directory, and below it   *)
(* the frames of the waiting process.                                      *)

\* Every entry of every subtree of the sandbox is a regular file.
RegularFilesOnly(d) ==
    \A c \in ChildIdx :
        \A k \in 1..Len(d.child[c].entries) : IsFile(d.child[c].entries[k])

\* The frame between the two processes.
Suspended(r, dir) ==
    [fn |-> "suspended", pkg |-> Subject, pc |-> r, i |-> 1, saved |-> dir]

\* The sandboxes that hold regular files only.
FileLayouts == {l \in Layouts : RegularFilesOnly(BuiltSandbox(l))}

\* Both processes have been started on the built package and neither has
\* taken a step.
InitRace ==
    /\ repo = [update |-> "ok",
               pkg |-> [p \in Names |-> Definition(<<"1">>, <<>>, TRUE)]]
    /\ \E l \in FileLayouts :
          db = [p \in Names |-> IF p = Subject THEN BuiltSandbox(l) ELSE NoPackageDir]
    /\ sys = {}
    /\ cwd = <<"start">>
    /\ stack = <<Frame("remove", Subject, "call"),
                 Suspended("none", <<"start">>),
                 Frame("install", Subject, "check")>>
    /\ ret = "none"
    /\ trace = <<Note("install", Subject, "built"), Note("remove", Subject, "built")>>
    /\ overflowChecks = FALSE
    /\ rlimit = "fd"

\* The scheduler takes the processor from the running process and gives it to
\* the waiting one, while that one has not ended.
Preempt ==
    /\ \E k \in 1..Len(stack) :
          /\ stack[k].fn = "suspended"
          /\ k > 1
          /\ stack' = SubSeq(stack, k + 1, Len(stack))
                         \o <<Suspended(ret, cwd)>>
                         \o SubSeq(stack, 1, k - 1)
          /\ ret' = stack[k].pc
          /\ cwd' = stack[k].saved
    /\ UNCHANGED <<repo, db, sys, trace, overflowChecks, rlimit>>

NextRace ==
    \/ Preempt
    \/ InstallCheckBuilt
    \/ InstallAfterBuild
    \/ InstallReturn
    \/ BuildNextDepend
    \/ BuildReturn
    \/ PackageBuildCreateAll
    \/ PackageBuildRemoveVersion
    \/ PackageBuildWriteVersion
    \/ PackageBuildChdir
    \/ BuildScript
    \/ PackageInstallMarker
    \/ PackageInstallSymlink
    \/ RemoveCall
    \/ PackageUninstallCheck
    \/ PackageUninstallRemoveBinaries
    \/ PackageUninstallDeleteAll
    \/ RemoveReturn

SpecRace == InitRace /\ [][NextRace]_vars

---------------------------------------------------------------------------
(* The working-directory specification: the update specification with an   *)
(* update script that can be missing, fail to start, or fail to be waited  *)
(* for.                                                                    *)

\* The update script of the repository: there and executable, not there, or
\* there and not executable.
UpdateScripts == {"ok", "absent", "noexec"}

InitCwd ==
    /\ \E pk \in UpdateDefinitions, u \in UpdateScripts : repo = [update |-> u, pkg |-> pk]
    /\ \E da \in {NoPackageDir} \cup {InstalledAt(v) : v \in VersionFiles},
          dj \in {NoPackageDir} \cup {InstalledAt(v) : v \in VersionFiles} :
          db = [p \in Names |-> IF p = "a" THEN da ELSE IF p = "b" THEN dj
                                ELSE NoPackageDir]
    /\ sys = {}
    /\ cwd = <<"start">>
    /\ stack = <<>>
    /\ ret = "idle"
    /\ trace = <<>>
    /\ overflowChecks \in BOOLEAN
    /\ rlimit = "fd"

\* repo.rs:146-147: the script was spawned and wait_with_output returns an
\* error, mapped to UpdateScriptError and returned; what the script wrote
\* stays.
UpdateRepositoryWaitFails ==
    /\ At("update_repository", "script")
    /\ repo.update = "ok"
    /\ \E pk \in UpdateDefinitions : repo' = [repo EXCEPT !.pkg = pk]
    /\ Return("UpdateScriptError")
    /\ UNCHANGED <<db, sys, cwd, trace, overflowChecks, rlimit>>

NextCwd ==
    \/ NextUpdate
    \/ UpdateRepositoryWaitFails

SpecCwd == InitCwd /\ [][NextCwd]_vars

---------------------------------------------------------------------------
(* The install specification: the coordinator's install on a repository    *)
(* whose dependency names all resolve, with install scripts that may also  *)
(* leave a subdirectory in the sandbox.                                    *)

\* The package definitions in which every dependency is a package.
ResolvedDefinitions ==
    {pk \in Definitions :
        \A p \in Names : \A i \in 1..Len(pk[p].depends) : pk[p].depends[i] \in Names}

\* What the install scripts write: nothing, a binary, or a directory, into
\* usr/bin.
TreeArtefacts == Artefacts \cup {[NoArtefacts EXCEPT ![1] = <<"d1">>]}

InitInstall ==
    /\ repo \in {[update |-> "ok", pkg |-> pk] : pk \in ResolvedDefinitions}
    /\ db = [p \in Names |-> NoPackageDir]
    /\ sys = {}
    /\ cwd = <<"start">>
    /\ stack = <<>>
    /\ ret = "idle"
    /\ trace = <<>>
    /\ overflowChecks \in BOOLEAN
    /\ rlimit \in {"fd", "stack"}

TreeScript == PackageBuildSpawn(TreeArtefacts)

NextInstall ==
    \/ StartInstall
    \/ Exit
    \/ PackageBuildCreateAll
    \/ PackageBuildRemoveVersion
    \/ PackageBuildWriteVersion
    \/ PackageBuildChdir
    \/ TreeScript
    \/ PackageInstallMarker
    \/ PackageInstallSymlink
    \/ InstallCheckBuilt
    \/ InstallAfterBuild
    \/ InstallReturn
    \/ BuildNextDepend
    \/ BuildAfterDepend
    \/ BuildReturn

SpecInstall == InitInstall /\ [][NextInstall]_vars

---------------------------------------------------------------------------
(* Properties.                                                             *)

\* The running (or just finished) command is the coordinator function e.
Command(e) == trace # <<>> /\ trace[1].e = e

HasEvent(e, p) == \E k \in 1..Len(trace) : trace[k].e = e /\ trace[k].p = p

LastEvent(e) == trace # <<>> /\ trace[Len(trace)].e = e

\* The sandbox file a projection symlink points to exists.
LinkTargetExists(l) ==
    /\ db[l.p].child[l.c].exists
    /\ \E k \in 1..Len(db[l.p].child[l.c].entries) : db[l.p].child[l.c].entries[k] = l.to

\* C1: in every state reached by build, install, update and remove commands,
\* for every package: is_installed implies is_built, and is_installed holds
\* exactly when is_built holds and the marker file installed exists.
C1_MarkerSemantics ==
    \A p \in Names :
        /\ is_installed(p, db).some => is_built(p, db).some
        /\ is_installed(p, db).some <=>
               (is_built(p, db).some /\ db[p].dir /\ db[p].marker)

\* One package is installed, another is built and not installed, and a third
\* has its marker while its version file is being rewritten.
C1_Witness ==
    \E p, q \in Names :
        /\ is_installed(p, db).some
        /\ is_built(q, db).some /\ ~db[q].marker
        /\ \E r \in Names : db[r].marker /\ ~db[r].version.exists

\* C3: while the coordinator's remove of a package runs, and when it has
\* ended, every projection symlink of the package still points to an existing
\* sandbox file: the symlinks go before the sandbox does.
C3_NoDanglingLinkInUninstall ==
    Command("remove") =>
        \A l \in sys : l.p = trace[1].p => LinkTargetExists(l)

\* An uninstall that found symlinks to withdraw has deleted the whole package
\* directory.
C3_Witness ==
    /\ Command("remove") /\ Finished /\ ret = "Ok"
    /\ \E k \in 1..Len(trace) :
          trace[k] = Note("withdrawn", trace[1].p, "links")
    /\ db[trace[1].p] = NoPackageDir

\* C10: when Package::build has returned success for a package, its version
\* file holds exactly the package's version, whitespace stripped, and is_built
\* gives install data with that version.
C10_VersionFileAfterBuild ==
    LastEvent("built") =>
        LET p == trace[Len(trace)].p IN
        /\ db[p].version = [exists |-> TRUE, content |-> PackageVersion(p)]
        /\ is_built(p, db) = [some |-> TRUE, version |-> PackageVersion(p)]

\* A build has just succeeded over a version file with another content.
C10_Witness ==
    /\ LastEvent("built")
    /\ \E k \in 1..Len(trace) :
          trace[k] = Note("build_begin", trace[Len(trace)].p, "different")

\* The packages of the repository a package names in its depends.
DependsOn(p) ==
    {PackageDepends(p)[k] : k \in 1..Len(PackageDepends(p))} \cap Names

RECURSIVE Closure(_, _)
Closure(ps, n) ==
    IF n = 0 THEN ps ELSE Closure(ps \cup UNION {DependsOn(q) : q \in ps}, n - 1)

\* The transitive dependencies of a package.
TransitiveDepends(p) == Closure(DependsOn(p), Cardinality(Names))

\* The trace entries of operation e, in order.
EventsOf(e) == SelectSeq(trace, LAMBDA ev : ev.e = e)

ChainOrder == <<"c", "b", "a">>

\* C2: within the coordinator's install, when Package::build of a package P
\* begins, every package in the transitive dependencies of P has been
\* installed (by this command, or it is installed on disk); and for the chain
\* a -> b -> c installed from a fresh state the markers are created in the
\* order c, b, a.
C2_DependenciesInstalledBeforeBuild ==
    Command("install") =>
        /\ At("Package.build", "create_all") =>
               \A D \in TransitiveDepends(Top.pkg) :
                   HasEvent("installed", D) \/ is_installed(D, db).some
        /\ (trace[1] = Note("install", "a", "fresh") /\ PackageDepends("a") = <<"b">>) =>
               \A k \in 1..Len(EventsOf("marker")) :
                   k <= Len(ChainOrder) /\ EventsOf("marker")[k].p = ChainOrder[k]

RECURSIVE StripZeros(_)
StripZeros(d) == IF d # <<>> /\ Head(d) = "0" THEN StripZeros(Tail(d)) ELSE d

\* Digit strings of one length, compared from the most significant digit.
RECURSIVE LexLess(_, _)
LexLess(x, y) ==
    IF x = <<>> THEN FALSE
    ELSE IF Head(x) # Head(y) THEN DigitVal(Head(x)) < DigitVal(Head(y))
    ELSE LexLess(Tail(x), Tail(y))

\* The integer formed by the decimal digits of version x is strictly greater
\* than the one formed by the digits of y; both have digits.  The integers
\* are not bounded by i32.
DigitsGreater(x, y) ==
    LET a == StripZeros(DigitsOf(x))
        b == StripZeros(DigitsOf(y))
    IN  /\ DigitsOf(x) # <<>> /\ DigitsOf(y) # <<>>
        /\ \/ Len(b) < Len(a)
           \/ Len(b) = Len(a) /\ LexLess(b, a)

\* The digits of a version form an integer that parses as i32.
IsI32(v) == ParseI32(DigitsOf(v)).ok

\* C4: update_repository invokes the callback for an installed package exactly
\* when the integer formed by the digits of its repository version is strictly
\* greater than the integer formed by the digits of its installed version; in
\* particular not when the two are equal.
C4_CallbackIffStrictlyGreater ==
    Command("update_repository") =>
        \A k \in 1..Len(trace) :
            /\ trace[k].e = "callback" =>
                   DigitsGreater(PackageVersion(trace[k].p), trace[k].res)
            /\ trace[k].e = "skipped" =>
                   ~DigitsGreater(PackageVersion(trace[k].p), trace[k].res)

\* The positions of the trace where the update loop called the callback for p.
Calls(p) == {k \in 1..Len(trace) : trace[k].e = "callback" /\ trace[k].p = p}

\* The positions of the trace where the update loop examined the installed p.
Examined(p) ==
    {k \in 1..Len(trace) : trace[k].e \in {"callback", "skipped"} /\ trace[k].p = p}

C6_MissingDependency ==
    (Finished /\ Command("install")) =>
        LET p == trace[1].p
            deps == PackageDepends(p)
        IN  (\E k \in 1..Len(deps) :
                 /\ deps[k] \notin Names
                 /\ \A j \in 1..(k - 1) :
                        /\ deps[j] \in Names
                        /\ \/ HasEvent("installed", deps[j])
                           \/ ~HasEvent("marker", deps[j]) /\ is_installed(deps[j], db).some)
            => /\ ret = "NoDependFound"
               /\ ~HasEvent("build_begin", p)
               /\ ~HasEvent("marker", p)
               /\ ~HasEvent("installed", p)

\* A successful symlink_out_scope was followed by remove_symlinks.
ProjectedThenWithdrawn ==
    /\ Len(trace) = 2
    /\ trace[1].e = "symlink_out_scope" /\ trace[1].res = "Ok"
    /\ trace[2].e = "remove_symlinks"

\* C7: for a built package whose sandbox is not modified in between, after a
\* successful symlink_out_scope followed by remove_symlinks nothing of the
\* package is left at a projection path: every symlink the projection left is
\* removed by the withdrawal, which succeeds.
C7_ProjectionThenWithdrawal ==
    ProjectedThenWithdrawn =>
        /\ trace[2].res = "Ok"
        /\ ~\E l \in sys : l.p = Subject
        /\ trace[1].links \cap trace[2].links = {}

\* The projection created a symlink for a regular file of the sandbox, and the
\* withdrawal followed.
C7_Witness ==
    /\ ProjectedThenWithdrawn
    /\ \E l \in trace[1].links : l.p = Subject /\ IsFile(l.to) /\ LinkTargetExists(l)

\* C8: symlink_out_scope run a second time over the same sandbox, the symlinks
\* of the first run still there, returns success and creates no new symlink.
C8_SymlinkOutScopeIdempotent ==
    (/\ Len(trace) = 2
     /\ trace[1].e = "symlink_out_scope" /\ trace[1].res = "Ok"
     /\ trace[2].e = "symlink_out_scope")
        => trace[2].res = "Ok" /\ trace[2].links = trace[1].links

\* How many times Package::install wrote the marker of p in this command.
MarkerCount(p) == Cardinality({k \in 1..Len(trace) : trace[k] = Event("marker", p)})

\* C9: the coordinator's install of a package that is already installed
\* returns Ok and leaves it installed; and within one top-level install, the
\* Package::install of a package this command has installed before (a
\* dependency listed twice, or shared by two dependents) returns Ok.
C9_InstallOfInstalledSucceeds ==
    Command("install") =>
        /\ (Finished /\ trace[1].res = "installed") =>
               ret = "Ok" /\ is_installed(trace[1].p, db).some
        /\ (At("install", "after_install") /\ MarkerCount(Top.pkg) >= 2) => ret = "Ok"

\* Every regular file in the projection subtrees of p's sandbox has its
\* symlink in the corresponding system directory.
Projected(p) ==
    \A c \in ChildIdx :
        \A k \in 1..Len(db[p].child[c].entries) :
            (db[p].child[c].exists /\ IsFile(db[p].child[c].entries[k])) =>
                \E l \in sys : l.p = p /\ l.c = c /\ l.to = db[p].child[c].entries[k]

\* C11: in every state between operations (no command running), a package
\* whose installed marker is present has been projected: every regular file
\* of its sandbox has its symlink.
C11_MarkerImpliesProjected ==
    stack = <<>> => \A p \in Names : (db[p].dir /\ db[p].marker) => Projected(p)

\* C12: for a package without dependencies and with nothing on disk, after
\* the coordinator's install returned Ok the directory files/usr/bin exists,
\* the version file holds the package's version, and the marker exists.
C12_InstallFromNothing ==
    (/\ Finished /\ Command("install") /\ ret = "Ok"
     /\ trace[1].res \in {"fresh", "absent"}
     /\ PackageDepends(trace[1].p) = <<>>)
        => LET d == db[trace[1].p] IN
           /\ d.dir /\ d.files /\ d.child[1].exists
           /\ d.version = [exists |-> TRUE, content |-> PackageVersion(trace[1].p)]
           /\ d.marker

\* The install of c from a fresh state has returned Ok.
C12_Witness ==
    /\ Finished /\ ret = "Ok"
    /\ trace[1] = Note("install", "c", "fresh")
    /\ PackageDepends("c") = <<>>
    /\ HasEvent("built", "c") /\ HasEvent("installed", "c")

\* C13: when Package::uninstall has returned Ok the package directory is gone
\* with its sandbox, version file and marker, is_built and is_installed are
\* both None; and a coordinator install that starts on a package that is not
\* built reaches Package::install only after it has built the package.
C13_UninstallDestroys ==
    /\ ((At("remove", "after") \/ (Finished /\ Command("remove"))) /\ ret = "Ok") =>
           /\ db[trace[1].p] = NoPackageDir
           /\ ~is_built(trace[1].p, db).some
           /\ ~is_installed(trace[1].p, db).some
    /\ (/\ Command("install") /\ trace[1].res \in {"fresh", "absent"}
        /\ stack # <<>> /\ Top.fn = "Package.install" /\ Top.pkg = trace[1].p)
           => HasEvent("built", trace[1].p)

\* Package::uninstall has just returned Ok for a package that was installed.
C13_Witness ==
    /\ At("remove", "after") /\ ret = "Ok"
    /\ trace[1].res = "installed"
    /\ db[trace[1].p] = NoPackageDir

\* The running command is a remove of a package that was not built when the
\* command started.
RemoveOfUnbuilt == Command("remove") /\ trace[1].res \in {"fresh", "absent"}

\* C14: in every step of a remove of a package for which is_built is None,
\* nothing on disk and no symlink changes; Package::uninstall returns
\* NotInstalled and the coordinator's remove ends with UninstallFail.
C14_UninstallOfUnbuilt ==
    [][RemoveOfUnbuilt =>
          /\ ~is_built(trace[1].p, db).some
          /\ db' = db /\ sys' = sys
          /\ At("remove", "after")' => ret' = "NotInstalled"
          /\ Finished' => ret' = "UninstallFail"]_vars

\* A remove of a package that is not built has ended with UninstallFail while
\* another package is installed.
C14_Witness ==
    /\ RemoveOfUnbuilt /\ Finished /\ ret = "UninstallFail"
    /\ ~is_built(trace[1].p, db).some
    /\ \E q \in Names : is_installed(q, db).some

\* The place of an operation in Package::update.
Rank(e) ==
    CASE e = "withdrawn" -> 2 [] e = "build_begin" -> 3 [] e = "built" -> 4
      [] e = "marker" -> 5 [] e = "installed" -> 6 [] e = "updated" -> 7
      [] OTHER -> 1

\* The operations on p recorded in the trace stand in the order of their ranks.
InUpdateOrder(p) ==
    \A i, j \in 2..Len(trace) :
        (trace[i].p = p /\ trace[j].p = p /\ Rank(trace[i].e) < Rank(trace[j].e)) => i < j

\* C15: Package::update runs remove_binaries, then build, then install, in
\* that order, and stops at the first that fails: build starts only after
\* remove_binaries returned Ok, install only after build returned Ok, and when
\* update returns an error after a failed build no install was started.
C15_UpdateOrder ==
    Command("update_repository") =>
        /\ \A p \in Names : InUpdateOrder(p)
        /\ (stack # <<>> /\ Top.fn = "Package.build") => HasEvent("withdrawn", Top.pkg)
        /\ (stack # <<>> /\ Top.fn = "Package.install") =>
               HasEvent("withdrawn", Top.pkg) /\ HasEvent("built", Top.pkg)
        /\ (At("callback", "after") /\ ret # "Ok" /\ ~HasEvent("built", Top.pkg)) =>
               ~HasEvent("marker", Top.pkg) /\ ~HasEvent("installed", Top.pkg)

\* Package::update has returned the error of a build that ran after
\* remove_binaries; no install followed.
C15_Witness ==
    /\ Command("update_repository") /\ At("callback", "after") /\ ret = "NoInstallScript"
    /\ HasEvent("withdrawn", Top.pkg) /\ HasEvent("build_begin", Top.pkg)
    /\ ~HasEvent("marker", Top.pkg)

\* The version file of p holds what Package::build writes.
VersionWritten(p) == db[p].version = [exists |-> TRUE, content |-> PackageVersion(p)]

\* create_all has created the package directory, files/ and the five subtrees.
StructureCreated(p) ==
    db[p].dir /\ db[p].files /\ \A c \in ChildIdx : db[p].child[c].exists

\* Where Package::build stands, against what has been done.
BuildOrder ==
    Command("Package.build") =>
        LET p == trace[1].p IN
        /\ At("Package.build", "create_all") =>
               cwd = <<"start">> /\ ~HasEvent("build_begin", p)
        /\ (At("Package.build", "rm_version") \/ At("Package.build", "write_version")) =>
               StructureCreated(p) /\ cwd = <<"start">> /\ ~HasEvent("built", p)
        /\ At("Package.build", "chdir") =>
               StructureCreated(p) /\ VersionWritten(p) /\ cwd = <<"start">>
                   /\ ~HasEvent("built", p)
        /\ At("Package.build", "spawn") =>
               VersionWritten(p) /\ cwd = FilesDir(p) /\ ~HasEvent("built", p)
        /\ HasEvent("built", p) => VersionWritten(p) /\ cwd = FilesDir(p)

\* A step at which Package::build returns an error leaves everything the
\* later steps would change as it is.
FailureStops ==
    (Command("Package.build") /\ stack # <<>> /\ Finished' /\ ret' # "Ok") =>
        /\ db' = db /\ cwd' = cwd
        /\ ~\E k \in 1..Len(trace') : trace'[k].e = "built"
        /\ (At("Package.build", "create_all") \/ At("Package.build", "write_version")) =>
               ~VersionWritten(trace[1].p) \/ trace[1].res \in {"installed", "built"}

\* C16: within Package::build, create_all completes before the version file
\* is written, the version file is written before the working directory is
\* changed to files/, the working directory is changed before the install
\* script is spawned, and a step that fails is the last step.
C16_BuildOrder == [](BuildOrder) /\ [][FailureStops]_vars

\* A build has ended at a failed set_current_dir: the version file is
\* written, the working directory is the one the process started in.
C16_Witness ==
    /\ Command("Package.build") /\ Finished /\ ret = "Other"
    /\ LastEvent("failed") /\ trace[Len(trace)].res = "chdir"
    /\ VersionWritten(trace[1].p) /\ cwd = <<"start">>

\* C17: when the install of a dependency of P has returned an error during a
\* coordinator install, the chain is given up: Package::build of P never
\* starts, no marker and no symlink is made for P, from then on the stack
\* only unwinds, and the command ends with the error.
C17_DependencyFailureAborts ==
    Command("install") =>
        \A k \in 1..Len(trace) :
            trace[k].e = "dep_failed" =>
                /\ ~HasEvent("build_begin", trace[k].p)
                /\ ~HasEvent("marker", trace[k].p)
                /\ ~HasEvent("installed", trace[k].p)
                /\ ~\E l \in sys : l.p = trace[k].p
                /\ \A j \in (k + 1)..Len(trace) : trace[j].e = "dep_failed"
                /\ ret = trace[k].res /\ ret # "Ok"
                /\ \A i \in 1..Len(stack) : stack[i].pc \in {"after_build", "after_dep"}

\* The install of a failed with the error of its dependency b, whose own
\* dependency c was installed before and could not be installed again.
C17_Witness ==
    /\ Command("install") /\ Finished /\ ret = "CompileFail"
    /\ trace[1].p = "a"
    /\ trace[Len(trace)] = Note("dep_failed", "a", "CompileFail")
    /\ ~db["a"].dir

\* How many times x occurs in the sequence q.
Occurrences(q, x) == Cardinality({k \in 1..Len(q) : q[k] = x})

\* C18: the walk of a projection subtree terminates on every finite tree,
\* also when the root holds a subdirectory: no call of the structure ends by
\* exhausting the stack, and the walk of every subtree of the sandbox comes to
\* its end having visited every regular file of the root once.
C18_WalkTerminates ==
    /\ \A k \in 1..Len(trace) : trace[k].res # "abort"
    /\ \A c \in ChildIdx :
          LET entries == db[Subject].child[c].entries
              walk == do_recursive(entries, 1, rlimit)
          IN  \A f \in FileNames : Occurrences(walk, f) = Occurrences(entries, f)

\* The last component of the five children: the name of the directory that
\* holds a file lying directly in the subtree.
ParentBasename == <<"bin", "lib", "lib64", "sbin", "linuxrc">>

\* C19: after symlink_out_scope ran over the sandbox, every regular file f in
\* a subtree c that exists has a symlink at /<c>/<id>/<basename of the
\* directory holding f> that points to f.
C19_ProjectionTargets ==
    (trace # <<>> /\ LastEvent("symlink_out_scope")) =>
        \A c \in ChildIdx :
            \A k \in 1..Len(db[Subject].child[c].entries) :
                (db[Subject].child[c].exists /\ IsFile(db[Subject].child[c].entries[k])) =>
                    \E l \in sys :
                        /\ l.c = c /\ l.p = Subject
                        /\ l.leaf = ParentBasename[c]
                        /\ l.to = db[Subject].child[c].entries[k]

\* The place of a package in the order update_repository goes through them.
Place(p) == CHOOSE i \in 1..Len(PkgOrder) : PkgOrder[i] = p

\* The positions of the trace where the callback logged that the update of a
\* package failed.
LoggedFailures == {k \in 1..Len(trace) : trace[k].e = "updated" /\ trace[k].res # "Ok"}

\* After the logged failure at position k of the trace, the command, when it
\* has returned, returned Ok, and every installed package after the failed one
\* was examined, with its update attempted when newer(repository, installed).
ContinuesAfter(k, newer(_, _)) ==
    /\ (Finished /\ ret # "panic") => ret = "Ok"
    /\ (Finished /\ ret = "Ok") =>
          \A q \in Names :
              (Place(q) > Place(trace[k].p) /\ is_installed(q, db).some) =>
                  /\ Examined(q) # {}
                  /\ \A j \in Examined(q) :
                        /\ j > k
                        /\ newer(PackageVersion(q), trace[j].res) =>
                              /\ trace[j].e = "callback"
                              /\ \E m \in (j + 1)..Len(trace) :
                                    trace[m].e = "updated" /\ trace[m].p = q

NewerI32(x, y) == IsI32(x) /\ IsI32(y) /\ DigitsGreater(x, y)

AfterRemoveBinaries ==
    \/ At("Package.uninstall", "delete_all") /\ Top.i = 1
    \/ At("Package.update", "build")

\* No projection symlink of the package is left in the system directories.
NoLinkOf(p) == \A l \in sys : l.p # p

\* C21, as stated: when Package::remove_binaries has returned success, the
\* projection symlinks of the package are gone and none of the paths of its
\* structure exists any more.
C21_RemoveBinariesClearsAll ==
    AfterRemoveBinaries =>
        /\ NoLinkOf(Top.pkg)
        /\ \A k \in 1..Len(get_path_bufs) : ~PathExists(db[Top.pkg], get_path_bufs[k])

\* A step of Package::remove_binaries.
InRemoveBinaries ==
    At("Package.uninstall", "remove_binaries") \/ At("Package.update", "remove_binaries")

\* C21, amended: when Package::remove_binaries has returned success, the
\* projection symlinks of the package are gone; remove_binaries leaves the
\* package directory as it was.
C21_RemoveBinariesWithdraws ==
    /\ [](AfterRemoveBinaries => NoLinkOf(Top.pkg))
    /\ [][InRemoveBinaries => db' = db]_vars

\* remove_binaries has returned success to uninstall after it withdrew
\* symlinks, and the sandbox of the package is still there.
C21_Witness ==
    /\ At("Package.uninstall", "delete_all") /\ Top.i = 1
    /\ trace[Len(trace)] = Note("withdrawn", Top.pkg, "links")
    /\ NoLinkOf(Top.pkg)
    /\ db[Top.pkg].files /\ db[Top.pkg].child[1].entries = <<"f1">>

\* No path of get_path_bufs exists for the package.
NoPathExists(p) ==
    \A k \in 1..Len(get_path_bufs) : ~PathExists(db[p], get_path_bufs[k])

\* C22: delete_all, called on a package directory of which all, some or none
\* of the paths of create_all exist (also a second time, also after
\* remove_symlinks), returns success, and after it none of those paths exists.
C22_DeleteAllRemovesWhatExists ==
    (trace # <<>> /\ LastEvent("delete_all")) =>
        /\ trace[Len(trace)].res = "Ok"
        /\ NoPathExists(Subject)

\* delete_all has returned success after remove_symlinks withdrew the
\* symlink of the projection, and nothing of the package is left.
C22_Witness ==
    /\ Len(trace) = 2
    /\ trace[1].e = "remove_symlinks" /\ trace[1].res = "Ok"
    /\ trace[2].e = "delete_all" /\ trace[2].res = "Ok"
    /\ sys = {} /\ ~overflowChecks
    /\ db[Subject] = NoPackageDir

\* The step is a call of create_all right after a call of create_all.
SecondCreateAll ==
    /\ trace # <<>> /\ LastEvent("create_all")
    /\ trace' # trace
    /\ trace'[Len(trace')].e = "create_all"

\* C23: create_all called twice in a row on the same package returns success
\* both times, and the second call leaves the directories (and what they
\* hold) exactly as the first call left them.
C23_CreateAllTwice ==
    [][SecondCreateAll =>
          /\ trace[Len(trace)].res = "Ok"
          /\ trace'[Len(trace')].res = "Ok"
          /\ db' = db]_vars

\* Two calls of create_all in a row have returned: every path of the
\* structure exists, and the file the sandbox held before is still there.
C23_Witness ==
    /\ Len(trace) = 2
    /\ trace[1].e = "create_all" /\ trace[1].res = "Ok"
    /\ trace[2].e = "create_all" /\ trace[2].res = "Ok"
    /\ \A k \in 1..Len(get_path_bufs) : PathExists(db[Subject], get_path_bufs[k])
    /\ db[Subject].child[1].entries = <<"f1">>
    /\ db[Subject].child[2].entries = <<>>

\* The install script of p ran and exited with a nonzero status.
ExitedNonzero(p) == \E k \in 1..Len(trace) : trace[k] = Note("built", p, "nonzero")

\* C24: once Package::build has come to its install script, it returns an
\* error only when the script cannot be spawned (NoInstallScript) or waited
\* for (FailedInstallScript); when the script ran and exited with a nonzero
\* status, build returns success and the package is built.
C24_ExitStatusNotConsulted ==
    (Command("Package.build") /\ Finished) =>
        LET p == trace[1].p IN
        /\ ExitedNonzero(p) => ret = "Ok" /\ is_built(p, db).some
        /\ ret = "NoInstallScript" =>
               ~repo.pkg[p].script /\ cwd = FilesDir(p) /\ ~HasEvent("built", p)
        /\ ret = "FailedInstallScript" =>
               trace[Len(trace)] = Note("failed", p, "wait") /\ ~HasEvent("built", p)
        /\ (cwd = FilesDir(p) /\ ret # "Ok") =>
               ret \in {"NoInstallScript", "FailedInstallScript"}

\* A build has returned success after its install script exited with a
\* nonzero status, and the package is built.
C24_Witness ==
    /\ Command("Package.build") /\ Finished /\ ret = "Ok"
    /\ ExitedNonzero(trace[1].p)
    /\ is_built(trace[1].p, db).some

\* The symlinks of the projection of p.
LinksOf(p, s) == {l \in s : l.p = p}

\* The last position of the trace where the projection of p succeeded, 0 when
\* there is none.
LastInstalled(p) ==
    LET at == {k \in 1..Len(trace) : trace[k] = Event("installed", p)}
    IN  IF at = {} THEN 0 ELSE CHOOSE k \in at : \A j \in at : j <= k

\* During the coordinator's build of P: when Package::build of P begins, every
\* dependency of P has been installed, in the order of declaration; a package
\* is built when its marker is written; nothing is installed for P.
BuildInstallsDependenciesOnly ==
    Command("build") =>
        LET P == trace[1].p
            deps == PackageDepends(P)
        IN  /\ ~HasEvent("marker", P) /\ ~HasEvent("installed", P)
            /\ HasEvent("build_begin", P) =>
                  /\ \A i \in 1..Len(deps) : LastInstalled(deps[i]) > 0
                  /\ \A i, j \in 1..Len(deps) :
                        i < j => LastInstalled(deps[i]) < LastInstalled(deps[j])
            /\ LastEvent("marker") => is_built(trace[Len(trace)].p, db).some
            /\ (Finished /\ ret = "Ok") => HasEvent("built", P)

\* A step of the coordinator's build of P leaves the marker of P and the
\* symlinks of P as they are.
BuildFrame ==
    (Command("build") /\ Command("build")') =>
        /\ db'[trace[1].p].marker = db[trace[1].p].marker
        /\ LinksOf(trace[1].p, sys') = LinksOf(trace[1].p, sys)

\* C25: the coordinator's build(P) installs the dependencies of P in the order
\* of declaration, each built before it is installed, then builds P, and
\* creates no installed marker and no system-wide symlink for P.
C25_BuildInstallsOnlyDependencies ==
    [](BuildInstallsDependenciesOnly) /\ [][BuildFrame]_vars

\* build a has returned success from a fresh state, a depending on b and c: b
\* and c are installed, a is built, and a has no marker and no symlink.
C25_Witness ==
    /\ trace # <<>> /\ trace[1] = Note("build", "a", "fresh")
    /\ Finished /\ ret = "Ok"
    /\ PackageDepends("a") = <<"b", "c">>
    /\ HasEvent("built", "a")
    /\ is_installed("b", db).some /\ is_installed("c", db).some
    /\ is_built("a", db).some /\ ~db["a"].marker
    /\ LinksOf("a", sys) = {}

\* C26: every Package that parsing produced has a nonempty name, equal to the
\* last component of its directory, and a nonempty version.
C26_ParsedPackageWellFormed ==
    (trace # <<>> /\ LastEvent("get_packages")) =>
        LET pkgs == trace[Len(trace)].packages IN
        \A k \in 1..Len(pkgs) :
            /\ pkgs[k].name # ""
            /\ pkgs[k].name = pkgs[k].dir[Len(pkgs[k].dir)]
            /\ pkgs[k].version # <<>>

\* The characters of a version that are decimal digits, in order.
DecimalDigits(v) == SelectSeq(v, LAMBDA c : c \in DigitChars)

\* The digits of v are not empty and form an integer of at most i32::MAX.
FitsI32(v) ==
    LET d == StripZeros(DecimalDigits(v)) IN
    /\ DecimalDigits(v) # <<>>
    /\ \/ Len(d) < Len(MaxDigits)
       \/ Len(d) = Len(MaxDigits) /\ ~LexLess(MaxDigits, d)

RECURSIVE Pow10(_)
Pow10(n) == IF n = 0 THEN 1 ELSE 10 * Pow10(n - 1)

\* The integer a string of digits without leading zeros denotes: the sum of
\* its digits, each times the power of ten of its place.
RECURSIVE PlaceSum(_, _)
PlaceSum(d, i) ==
    IF i > Len(d) THEN 0
    ELSE DigitVal(d[i]) * Pow10(Len(d) - i) + PlaceSum(d, i + 1)

DecimalValue(v) == PlaceSum(StripZeros(DecimalDigits(v)), 1)

\* C27: for a repository version x and an installed version y whose digits
\* are not empty and fit in i32, comparse_version returns Ok with exactly the
\* integer difference of the two digit strings read as decimal numbers.
C27_DifferenceOfDigits ==
    (trace # <<>> /\ LastEvent("comparse_version")
        /\ FitsI32(repo.x) /\ FitsI32(repo.y)) =>
        /\ trace[Len(trace)].res = "Ok"
        /\ trace[Len(trace)].val = DecimalValue(repo.x) - DecimalValue(repo.y)

\* The comparison of 0.9 (digits 09) with 2.147.483.647 has returned
\* 9 - 2147483647.
C27_Witness ==
    /\ trace # <<>> /\ LastEvent("comparse_version")
    /\ repo.x = <<"0", "9">> /\ repo.y = MaxDotted
    /\ trace[Len(trace)].res = "Ok"
    /\ trace[Len(trace)].val = -2147483638

\* The files the walks of symlink_out_scope visit in the sandbox d, in order,
\* each with the subtree it lies in.
RECURSIVE VisitsFrom(_, _, _)
VisitsFrom(d, k, limit) ==
    IF k > Len(Children) THEN <<>>
    ELSE IF ~d.child[k].exists THEN VisitsFrom(d, k + 1, limit)
    ELSE LET w == SelectSeq(do_recursive(d.child[k].entries, 1, limit),
                            LAMBDA e : e # StackOverflow)
         IN  [i \in 1..Len(w) |-> [c |-> k, name |-> w[i]]] \o VisitsFrom(d, k + 1, limit)

\* The symlink the release build makes for a visited file of p.
LinkFor(p, v) == [c |-> v.c, p |-> p, leaf |-> "", to |-> v.name]

\* The step is the projection of Package::install failing at a symlink.
ProjectionFails ==
    At("Package.install", "symlink") /\ stack' = Popped /\ ret' = "LinkError"

\* A failing projection stops at the file whose symlink failed: the symlinks
\* of the files visited before it are there, and nothing else is new.
AbortsAtFailure ==
    ProjectionFails =>
        LET p == Top.pkg
            V == VisitsFrom(db[p], 1, rlimit)
        IN  \E j \in 1..Len(V) :
               /\ \A i \in 1..(j - 1) : LinkFor(p, V[i]) \notin sys
               /\ sys' = sys \cup {LinkFor(p, V[i]) : i \in 1..(j - 1)}
               /\ Occupied(sys', LinkFor(p, V[j]))

\* The error of Package::install reaches the coordinator, which reports
\* CompileFail and touches nothing.
FailurePropagates ==
    (At("install", "after_install") /\ ret = "LinkError") =>
        /\ stack' = Popped /\ ret' = "CompileFail"
        /\ sys' = sys /\ db' = db

\* C28: when a symlink fails during symlink_out_scope, the walk stops at that
\* file, the symlinks created before it in the same call stay, Package::install
\* returns LinkError and the coordinator's install CompileFail.
C28_SymlinkFailureAborts == [][AbortsAtFailure /\ FailurePropagates]_vars

\* An install has returned CompileFail: the sandbox holds f1 and f2 in
\* usr/bin, the symlink of f1 was made and is still there, that of f2 failed.
C28_Witness ==
    /\ trace # <<>> /\ trace[1] = Note("install", Subject, "built")
    /\ Finished /\ ret = "CompileFail"
    /\ db[Subject].child[1].entries = <<"f1", "f2">>
    /\ sys = {[c |-> 1, p |-> Subject, leaf |-> "", to |-> "f1"]}

\* The sandbox d without its symbolic links to directories.
WithoutDirLinks(d) ==
    [d EXCEPT !.child = [c \in ChildIdx |->
        [d.child[c] EXCEPT !.entries = SelectSeq(@, LAMBDA e : e \notin DirLinkNames)]]]

\* C29: the walk ignores an entry that is a symbolic link to a directory: a
\* projection gives the result, and leaves the symlinks, it would on the
\* sandbox without such entries.
C29_DirectoryLinksIgnored ==
    [][(trace' # trace /\ trace'[Len(trace')].e = "symlink_out_scope") =>
          LET r == symlink_out_scope(Subject, WithoutDirLinks(db[Subject]), sys, rlimit)
          IN  sys' = r.sys /\ trace'[Len(trace')].res = r.res]_vars

\* No package is among its own transitive dependencies, and every dependency
\* name is the name of a package.
AcyclicAndResolved ==
    /\ \A p \in Names : p \notin TransitiveDepends(p)
    /\ \A p \in Names : \A i \in 1..Len(PackageDepends(p)) : PackageDepends(p)[i] \in Names

\* How many times Package::build was begun for p in the running command.
BuildCount(p) ==
    Cardinality({k \in 1..Len(trace) : trace[k].e = "build_begin" /\ trace[k].p = p})

\* C30: on an acyclic repository whose dependency names resolve, the
\* coordinator's install does not run into a recursion without end (the
\* process is not ended by the overflow of its stack), and Package::build is
\* begun at most once for each package.
C30_InstallTerminates ==
    (Command("install") /\ AcyclicAndResolved) =>
        /\ ret # "abort"
        /\ \A p \in Names : BuildCount(p) <= 1

\* The second half of C30 alone.
BuildAtMostOnce ==
    (Command("install") /\ AcyclicAndResolved) => \A p \in Names : BuildCount(p) <= 1

\* C31: two distinct regular files of one subtree are not projected to the
\* same symlink path: on a freshly built package that holds regular files
\* only, with no symlink made before, the first symlink_out_scope succeeds and
\* leaves one symlink for every file (build without overflow checks).
C31_DistinctTargets ==
    (/\ Len(trace) = 1
     /\ trace[1].e = "symlink_out_scope"
     /\ RegularFilesOnly(db[Subject])
     /\ ~overflowChecks)
        => /\ trace[1].res = "Ok"
           /\ \A c \in ChildIdx :
                 \A k \in 1..Len(db[Subject].child[c].entries) :
                    \E l \in sys : l.c = c /\ l.to = db[Subject].child[c].entries[k]

\* C32: remove_symlinks deletes only what a symlink_out_scope of the package
\* created: a file of other origin at a projection target path is still there
\* after the call.
C32_OnlyOwnSymlinksRemoved ==
    [][StructureRemoveSymlinks => \A l \in sys : l.to = Foreign => l \in sys']_vars

\* Package::build has just returned an error to the coordinator's build.
BuildFailed == At("build", "after_build") /\ ret # "Ok"

\* When Package::build of a package that was not built when the command began
\* returns an error, is_built of the package is None.
FailedBuildNotBuilt ==
    (BuildFailed /\ trace[1].res \in {"fresh", "absent"}) => ~is_built(Top.pkg, db).some

\* A package whose install script never ran (it has none) is not marked
\* installed.
UnbuiltNeverMarked == ~repo.pkg[Subject].script => ~db[Subject].marker

\* C33: after Package::build returned an error on a package that was not
\* built before, is_built is None, so that a later install builds again and
\* does not mark the unbuilt sandbox as installed.
C33_FailedBuildLeavesUnbuilt == FailedBuildNotBuilt /\ UnbuiltNeverMarked

\* C34: a package that the callback updated successfully in the first run of
\* update_repository gets no callback in the second run on the unchanged
\* repository.
C34_UpdateFixedPoint ==
    \A i, j, k \in 1..Len(trace) :
        (/\ i < j /\ j < k
         /\ trace[i].e = "updated" /\ trace[i].res = "Ok"
         /\ trace[j] = Again
         /\ trace[k].e = "callback")
            => trace[k].p # trace[i].p

\* A projection symlink of the package points to a sandbox file that is gone.
Dangling == \E l \in sys : l.p = Subject /\ ~LinkTargetExists(l)

\* The projection of the package was made after its symlinks were withdrawn.
ProjectedAfterWithdrawal ==
    \E i, k \in 1..Len(trace) :
        /\ i < k
        /\ trace[i].e = "withdrawn" /\ trace[i].p = Subject
        /\ trace[k] = Event("installed", Subject)

\* C35: with install and remove running concurrently on one package, a state
\* is reached in which a projection symlink exists and the sandbox file it
\* points to has been deleted (the witness); after a projection that
\* succeeded this happens only when the install process projected between
\* the remove process's remove_symlinks and its delete_all.
C35_DanglingByRace ==
    (Dangling /\ HasEvent("installed", Subject)) => ProjectedAfterWithdrawal

\* Both processes have ended with success and the symlink points nowhere.
C35_Witness ==
    /\ Dangling
    /\ ~db[Subject].dir
    /\ HasEvent("installed", Subject)
    /\ Len(stack) = 1 /\ ret = "Ok" /\ stack[1].pc = "Ok"

\* C36: when update_repository has returned without having invoked the
\* callback, whatever it returned, the working directory of the process is
\* the one it had when the call began.
C36_WorkingDirectoryRestored ==
    (/\ Finished
     /\ Command("update_repository")
     /\ \A k \in 1..Len(trace) : trace[k].e # "callback")
        => cwd = <<"start">>

\* The update loop stands at an installed package whose repository version or
\* installed version has no decimal digit or digits above i32::MAX.
UnparsableStep ==
    /\ At("update_repository", "loop")
    /\ Top.i <= Len(PkgOrder)
    /\ LET data == is_installed(PkgOrder[Top.i], db)
       IN  /\ data.some
           /\ ~FitsI32(PackageVersion(PkgOrder[Top.i])) \/ ~FitsI32(data.version)

\* The loop passes over the package it stands at: no callback, no return,
\* the next package is the one examined next.
PassesOver ==
    /\ stack' = [stack EXCEPT ![Len(stack)].i = Top.i + 1]
    /\ ret' = ret
    /\ trace' = Append(trace, Note("skipped", PkgOrder[Top.i],
                                   is_installed(PkgOrder[Top.i], db).version))
    /\ db' = db /\ sys' = sys /\ cwd' = cwd

\* C37: when the repository version or the installed version of a package
\* has no decimal digit, or its digits exceed the signed 32-bit range,
\* update_repository invokes no callback for it and returns no error: it
\* goes on to the next package.
C37_UnparsableVersionSkipped == [][UnparsableStep => PassesOver]_vars

\* The update returned Ok after it passed over a, installed at 1 with a
\* version above i32::MAX in the repository, and then invoked the callback for
\* b, installed at 1 with 2 in the repository.
C37_Witness ==
    /\ Command("update_repository") /\ Finished /\ ret = "Ok"
    /\ PackageVersion("a") = TooLong
    /\ \E k, j \in 1..Len(trace) :
          /\ k < j
          /\ trace[k] = Note("skipped", "a", <<"1">>)
          /\ trace[j] = Note("callback", "b", <<"1">>)
          /\ PackageVersion("b") = <<"2">>

\* The files the walk of subtree c of the package visits, in order.
VisitedFiles(c) ==
    SelectSeq(do_recursive(db[Subject].child[c].entries, 1, rlimit),
              LAMBDA e : e # StackOverflow)

\* C38: in symlink_out_scope and remove_symlinks the index child.len() - 2
\* does not underflow: for every file a call visited, the components of its
\* basename are at least two, and no call ended in the panic of the
\* subtraction.
C38_IndexNeverUnderflows ==
    trace # <<>> =>
        /\ \A k \in 1..Len(trace) : trace[k].res # "panic"
        /\ \A c \in ChildIdx :
              \A i \in 1..Len(VisitedFiles(c)) :
                  /\ Len(SplitSlash(VisitedFiles(c)[i])) >= 2
                  /\ ~IndexMinusTwo(Len(SplitSlash(VisitedFiles(c)[i]))).overflow

=============================================================================
